---- MODULE Spec2Model ----
(***************************************************************************)
(* Model of the crop prediction core of Agri-advisor:                      *)
(*   ml-service/app/models/predictor.py     class CropPredictor            *)
(*   ml-service/app/models/predictor_v3.py  class CropPredictorV3          *)
(*                                                                         *)
(* Numbers.  The code computes with Python floats; the model computes the  *)
(* same expressions exactly, in fixed point:                               *)
(*   - a temperature is held in half degrees (t2 = 2 * degrees Celsius);   *)
(*   - a temperature suitability is held in units of 1/SuitOne;            *)
(*   - a score is held in units of 1/ScoreOne of a point;                  *)
(*   - a probability is held in hundredths;                                *)
(*   - a suitabilityScore of a recommendation (round(score, 1)) is held in *)
(*     tenths of a point.                                                  *)
(* The units are chosen so that every product and quotient the code forms  *)
(* on these inputs is an integer.  One place follows the float, not the    *)
(* exact value: round(score, 1) of a score that is exactly halfway between *)
(* two tenths goes up or down with the float's representation error, and   *)
(* the model takes both.                                                   *)
(***************************************************************************)
EXTENDS Integers, Sequences, FiniteSets, TLC

VARIABLES
    cls,            \* the class that is instantiated
    files,          \* the artifact directory: file name -> status
    hash_order,     \* the iteration order of this process's string sets
    pc,             \* "new" before __init__, "ready" after it, "called"
                    \* while a predict call's result is with the caller
    self,           \* the predictor object's attributes
    call,           \* the last predict call: its input, its result
    failed_before,  \* some earlier predict call's model path raised
    fn,             \* the last application of _calculate_temp_suitability
    cand,           \* the last scoring of one candidate of the model pass
    first,          \* an earlier call kept for comparison with a repeat of it
    yld,            \* the last application of a yield estimator
    enc,            \* the last application of _prepare_features
    geo,            \* the lru_cache of get_coordinates, and its last lookup
    thr             \* the predict calls in flight on the object, one per thread

vars == <<cls, files, hash_order, pc, self, call, failed_before, fn, cand,
         first, yld, enc, geo, thr>>

Abs(x) == IF x < 0 THEN -x ELSE x
Min2(a, b) == IF a <= b THEN a ELSE b
Max2(a, b) == IF a >= b THEN a ELSE b

(***************************************************************************)
(* Fixed-point units.                                                      *)
(***************************************************************************)
SuitOne == 5 * 10920        \* 1.0 as a temperature suitability
ScoreOne == 20 * SuitOne    \* 1 point of score
TenthOne == ScoreOne \div 10 \* 0.1 point of score
ProbOne == 10 * 10          \* probability 1.0

(***************************************************************************)
(* CROP_TEMP_RANGES: category -> (min, max) in degrees Celsius.            *)
(***************************************************************************)
Categories ==
    <<"CEREALS_WHEAT", "CEREALS_RICE", "CEREALS_MAIZE", "CEREALS_BARLEY",
      "CEREALS_MILLETS", "PULSES", "OILSEEDS", "SUGARCANE", "COTTON", "JUTE",
      "TOBACCO", "VEGETABLES", "FRUITS", "SPICES", "PLANTATION", "FIBER">>

CROP_TEMP_RANGES ==
    [c \in {Categories[i] : i \in 1..Len(Categories)} |->
        CASE c = "CEREALS_WHEAT"   -> <<10, 25>>
          [] c = "CEREALS_RICE"    -> <<20, 35>>
          [] c = "CEREALS_MAIZE"   -> <<18, 32>>
          [] c = "CEREALS_BARLEY"  -> <<8, 22>>
          [] c = "CEREALS_MILLETS" -> <<25, 40>>
          [] c = "PULSES"          -> <<15, 30>>
          [] c = "OILSEEDS"        -> <<20, 35>>
          [] c = "SUGARCANE"       -> <<20, 35>>
          [] c = "COTTON"          -> <<21, 35>>
          [] c = "JUTE"            -> <<24, 37>>
          [] c = "TOBACCO"         -> <<18, 28>>
          [] c = "VEGETABLES"      -> <<15, 30>>
          [] c = "FRUITS"          -> <<15, 35>>
          [] c = "SPICES"          -> <<20, 35>>
          [] c = "PLANTATION"      -> <<20, 30>>
          [] c = "FIBER"           -> <<25, 35>>]

(***************************************************************************)
(* DEFAULT_SEASON_CROPS: season -> list of categories.                     *)
(***************************************************************************)
Seasons == {"KHARIF", "RABI", "SUMMER", "WINTER", "AUTUMN", "WHOLE YEAR"}

DEFAULT_SEASON_CROPS ==
    [s \in Seasons |->
        CASE s = "KHARIF" ->
                <<"CEREALS_RICE", "CEREALS_MAIZE", "CEREALS_MILLETS", "PULSES",
                  "OILSEEDS", "COTTON", "JUTE", "SUGARCANE", "VEGETABLES",
                  "FRUITS">>
          [] s = "RABI" ->
                <<"CEREALS_WHEAT", "CEREALS_BARLEY", "PULSES", "OILSEEDS",
                  "VEGETABLES", "SPICES", "TOBACCO">>
          [] s = "SUMMER" ->
                <<"CEREALS_MAIZE", "CEREALS_MILLETS", "PULSES", "VEGETABLES",
                  "FRUITS", "OILSEEDS">>
          [] s = "WINTER" ->
                <<"CEREALS_WHEAT", "CEREALS_BARLEY", "VEGETABLES", "SPICES",
                  "OILSEEDS", "PULSES">>
          [] s = "AUTUMN" ->
                <<"CEREALS_RICE", "PULSES", "VEGETABLES", "OILSEEDS",
                  "CEREALS_MAIZE">>
          [] s = "WHOLE YEAR" ->
                <<"SUGARCANE", "VEGETABLES", "FRUITS", "PLANTATION", "SPICES",
                  "FIBER">>]

Range(seq) == {seq[i] : i \in 1..Len(seq)}

(***************************************************************************)
(* _calculate_temp_suitability(crop, temperature), in units of 1/SuitOne.  *)
(* t2 is the temperature in half degrees.                                  *)
(*   optimal_temp = (temp_min + temp_max) / 2                              *)
(*   inside : 1.0 - (abs(t - optimal_temp) / ((temp_max - temp_min) / 2))  *)
(*                  * 0.2                                                  *)
(*   below  : max(0.2, 0.8 - (temp_min - t) * 0.05)                        *)
(*   above  : max(0.2, 0.8 - (t - temp_max) * 0.05)                        *)
(***************************************************************************)
SuitDefault == (7 * SuitOne) \div 10
SuitFloor == (2 * SuitOne) \div 10
SuitEdge == (8 * SuitOne) \div 10

calculate_temp_suitability_no_floor(crop, t2) ==
    IF crop \notin DOMAIN CROP_TEMP_RANGES
    THEN SuitDefault
    ELSE LET temp_min2 == 2 * CROP_TEMP_RANGES[crop][1]
             temp_max2 == 2 * CROP_TEMP_RANGES[crop][2]
             optimal2x2 == temp_min2 + temp_max2
         IN  IF temp_min2 <= t2 /\ t2 <= temp_max2
             THEN SuitOne - (Abs(2 * t2 - optimal2x2) * SuitOne)
                                \div (5 * (temp_max2 - temp_min2))
             ELSE IF t2 < temp_min2
             THEN SuitEdge - ((temp_min2 - t2) * SuitOne) \div 40
             ELSE SuitEdge - ((t2 - temp_max2) * SuitOne) \div 40

calculate_temp_suitability(crop, t2) ==
    IF crop \notin DOMAIN CROP_TEMP_RANGES
    THEN SuitDefault
    ELSE LET temp_min2 == 2 * CROP_TEMP_RANGES[crop][1]
             temp_max2 == 2 * CROP_TEMP_RANGES[crop][2]
             optimal2x2 == temp_min2 + temp_max2
         IN  IF temp_min2 <= t2 /\ t2 <= temp_max2
             THEN SuitOne - (Abs(2 * t2 - optimal2x2) * SuitOne)
                                \div (5 * (temp_max2 - temp_min2))
             ELSE IF t2 < temp_min2
             THEN Max2(SuitFloor, SuitEdge - ((temp_min2 - t2) * SuitOne) \div 40)
             ELSE Max2(SuitFloor, SuitEdge - ((t2 - temp_max2) * SuitOne) \div 40)

(***************************************************************************)
(* The artifact directory (self.model_dir).  A file is "ok" (present and   *)
(* readable), "missing", or "corrupt" (present: os.path.exists is true,    *)
(* but open/pickle.load/json.load raises).                                 *)
(***************************************************************************)
Status == {"ok", "missing", "corrupt"}

MandatoryFiles ==
    [v \in {"v3", "v2", "v1"} |->
        CASE v = "v3" -> <<"crop_classifier_v3.pkl", "scaler_v3.pkl",
                           "encoders_v3.json">>
          [] v = "v2" -> <<"crop_classifier_v2.pkl", "yield_regressor_v2.pkl",
                           "scaler_v2.pkl", "encoders_v2.json",
                           "crop_profiles_v2.json", "district_profiles_v2.json">>
          [] v = "v1" -> <<"crop_classifier.pkl", "yield_regressor.pkl",
                           "scaler.pkl", "encoders.json", "crop_profiles.json",
                           "district_profiles.json">>]

OptionalFiles == {"season_crop_map_v3.json", "crop_profiles_v3.json"}

FileNames ==
    Range(MandatoryFiles["v3"]) \cup Range(MandatoryFiles["v2"])
        \cup Range(MandatoryFiles["v1"]) \cup OptionalFiles

\* A defect of one format: no file of it, or its k-th mandatory file, is
\* not "ok".
Defects(v) ==
    {<<0, "ok">>} \cup ((1..Len(MandatoryFiles[v])) \X {"missing", "corrupt"})

FormatStatus(v, d, f) ==
    IF d[1] > 0 /\ MandatoryFiles[v][d[1]] = f THEN d[2] ELSE "ok"

MkFiles(d3, d2, d1, smap, prof) ==
    [f \in FileNames |->
        IF f = "season_crop_map_v3.json" THEN smap
        ELSE IF f = "crop_profiles_v3.json" THEN prof
        ELSE IF f \in Range(MandatoryFiles["v3"]) THEN FormatStatus("v3", d3, f)
        ELSE IF f \in Range(MandatoryFiles["v2"]) THEN FormatStatus("v2", d2, f)
        ELSE FormatStatus("v1", d1, f)]

\* Every directory in which each format has at most one mandatory file that
\* is missing or corrupt (the two optional files are free), and the
\* directory without any file.
FileConfigs ==
    {MkFiles(d3, d2, d1, smap, prof) :
        d3 \in Defects("v3"), d2 \in Defects("v2"), d1 \in Defects("v1"),
        smap \in Status, prof \in Status}
        \cup {[f \in FileNames |-> "missing"]}

NoClf == <<1, "missing">>
Whole == <<0, "ok">>

\* The directory without any artifact file.
EmptyDir == [f \in FileNames |-> "missing"]

\* The directories the prediction calls are explored from.
CoreConfigs ==
    { EmptyDir,
      MkFiles(Whole, Whole, Whole, "ok", "ok"),
      MkFiles(Whole, NoClf, NoClf, "missing", "missing"),
      MkFiles(NoClf, Whole, Whole, "ok", "ok"),
      MkFiles(NoClf, NoClf, Whole, "missing", "missing"),
      MkFiles(<<2, "missing">>, Whole, Whole, "ok", "ok"),
      MkFiles(Whole, Whole, Whole, "ok", "corrupt") }

(***************************************************************************)
(* The predictor object.  val[a] names where attribute a's value came      *)
(* from: a file name, "empty" ({}), "default" (the except/else branch's    *)
(* table), or "unset" (the attribute was never assigned: hasattr is        *)
(* false, and reading it raises AttributeError).                           *)
(***************************************************************************)
Attrs == {"classifier", "yield_regressor", "scaler", "encoders",
          "season_crop_map", "crop_profiles", "district_profiles"}

Classes == {"CropPredictor", "CropPredictorV3"}

NewObject ==
    [use_ml_model |-> "unset", model_version |-> "unset",
     val |-> [a \in Attrs |-> "unset"]]

\* One step of a load branch: attribute, file ("" for none: a plain
\* assignment), whether the file is guarded by os.path.exists.
Step(a, f, opt) == [attr |-> a, file |-> f, optional |-> opt]

LoadSteps(c, v) ==
    IF c = "CropPredictor"
    THEN CASE v = "v3" ->
                <<Step("classifier", "crop_classifier_v3.pkl", FALSE),
                  Step("scaler", "scaler_v3.pkl", FALSE),
                  Step("encoders", "encoders_v3.json", FALSE),
                  Step("season_crop_map", "season_crop_map_v3.json", TRUE),
                  Step("crop_profiles", "crop_profiles_v3.json", TRUE),
                  Step("district_profiles", "", FALSE)>>
           [] v = "v2" ->
                <<Step("classifier", "crop_classifier_v2.pkl", FALSE),
                  Step("yield_regressor", "yield_regressor_v2.pkl", FALSE),
                  Step("scaler", "scaler_v2.pkl", FALSE),
                  Step("encoders", "encoders_v2.json", FALSE),
                  Step("crop_profiles", "crop_profiles_v2.json", FALSE),
                  Step("district_profiles", "district_profiles_v2.json", FALSE)>>
           [] v = "v1" ->
                <<Step("classifier", "crop_classifier.pkl", FALSE),
                  Step("yield_regressor", "yield_regressor.pkl", FALSE),
                  Step("scaler", "scaler.pkl", FALSE),
                  Step("encoders", "encoders.json", FALSE),
                  Step("crop_profiles", "crop_profiles.json", FALSE),
                  Step("district_profiles", "district_profiles.json", FALSE)>>
    ELSE CASE v = "v3" ->
                <<Step("classifier", "crop_classifier_v3.pkl", FALSE),
                  Step("scaler", "scaler_v3.pkl", FALSE),
                  Step("encoders", "encoders_v3.json", FALSE),
                  Step("season_crop_map", "season_crop_map_v3.json", TRUE),
                  Step("crop_profiles", "crop_profiles_v3.json", TRUE)>>
           [] v = "v2" ->
                <<Step("classifier", "crop_classifier_v2.pkl", FALSE),
                  Step("scaler", "scaler_v2.pkl", FALSE),
                  Step("encoders", "encoders_v2.json", FALSE),
                  Step("district_profiles", "district_profiles_v2.json", FALSE),
                  Step("season_crop_map", "", FALSE),
                  Step("crop_profiles", "", FALSE)>>

\* The formats a class probes, in probing order, by their classifier file.
ProbeOrder(c) ==
    IF c = "CropPredictor" THEN <<"v3", "v2", "v1">> ELSE <<"v3", "v2">>

ProbeOrderOldestFirst(c) ==
    IF c = "CropPredictor" THEN <<"v1", "v2", "v3">> ELSE <<"v2", "v3">>

ClassifierFile(v) == MandatoryFiles[v][1]

\* os.path.exists(path)
Exists(fs, f) == fs[f] # "missing"

\* Runs the steps from the i-th on.  A step whose file cannot be read raises
\* before its attribute is assigned and ends the branch.
RECURSIVE RunSteps(_, _, _, _)
RunSteps(fs, steps, i, val) ==
    IF i > Len(steps) THEN [ok |-> TRUE, val |-> val]
    ELSE LET s == steps[i] IN
         IF s.file = "" THEN
             RunSteps(fs, steps, i + 1, [val EXCEPT ![s.attr] = "empty"])
         ELSE IF s.optional /\ ~Exists(fs, s.file) THEN
             RunSteps(fs, steps, i + 1, [val EXCEPT ![s.attr] = "empty"])
         ELSE IF fs[s.file] = "ok" THEN
             RunSteps(fs, steps, i + 1, [val EXCEPT ![s.attr] = s.file])
         ELSE [ok |-> FALSE, val |-> val]

\* The first format of the probing order whose classifier file exists, or
\* "none".
RECURSIVE SelectFormat(_, _, _)
SelectFormat(fs, order, i) ==
    IF i > Len(order) THEN "none"
    ELSE IF Exists(fs, ClassifierFile(order[i])) THEN order[i]
    ELSE SelectFormat(fs, order, i + 1)

\* The attributes the handlers of a failed or empty load assign.
NoModelVal(c, val, failed) ==
    IF c = "CropPredictor"
    THEN [val EXCEPT !["crop_profiles"] = "empty",
                     !["district_profiles"] = "empty",
                     !["encoders"] = "default"]
    ELSE IF failed THEN val
    ELSE [val EXCEPT !["season_crop_map"] = "empty",
                     !["crop_profiles"] = "empty",
                     !["encoders"] = "default"]

\* _load_models, with a given probing order.
LoadWithOrder(c, fs, order) ==
    LET v == SelectFormat(fs, order, 1) IN
    IF v = "none"
    THEN [use_ml_model |-> FALSE, model_version |-> "None",
          val |-> NoModelVal(c, NewObject.val, FALSE)]
    ELSE LET r == RunSteps(fs, LoadSteps(c, v), 1, NewObject.val) IN
         IF r.ok
         THEN [use_ml_model |-> TRUE, model_version |-> v, val |-> r.val]
         ELSE [use_ml_model |-> FALSE, model_version |-> "None",
               val |-> NoModelVal(c, r.val, TRUE)]

load_models_oldest_first(c, fs) == LoadWithOrder(c, fs, ProbeOrderOldestFirst(c))

load_models(c, fs) == LoadWithOrder(c, fs, ProbeOrder(c))

(***************************************************************************)
(* The contents of the artifact files, as the training scripts write them. *)
(* The classes of a LabelEncoder are sorted.  The v2 and v3 classifiers    *)
(* predict the 16 crop categories; the v1 classifier predicts crop names   *)
(* (a sample of them is modelled: COTTON and SUGARCANE are crop names and  *)
(* category names alike).                                                  *)
(***************************************************************************)
CoarseClasses ==
    <<"CEREALS_BARLEY", "CEREALS_MAIZE", "CEREALS_MILLETS", "CEREALS_RICE",
      "CEREALS_WHEAT", "COTTON", "FIBER", "FRUITS", "JUTE", "OILSEEDS",
      "PLANTATION", "PULSES", "SPICES", "SUGARCANE", "TOBACCO", "VEGETABLES">>

FineClasses == <<"BAJRA", "COTTON", "MAIZE", "RICE", "SUGARCANE", "WHEAT">>

StateClasses == <<"GUJARAT", "PUNJAB">>
DistrictClasses == <<"AHMEDABAD", "AMRITSAR", "LUDHIANA">>
SeasonClasses == <<"AUTUMN", "KHARIF", "RABI", "SUMMER", "WHOLE YEAR", "WINTER">>

EncodersOf(tag) ==
    CASE tag = "encoders_v3.json" ->
            [state_classes |-> StateClasses, district_classes |-> DistrictClasses,
             season_classes |-> SeasonClasses, crop_classes |-> CoarseClasses]
      [] tag = "encoders_v2.json" ->
            [state_classes |-> StateClasses, district_classes |-> DistrictClasses,
             season_classes |-> SeasonClasses, crop_classes |-> CoarseClasses]
      [] tag = "encoders.json" ->
            [state_classes |-> StateClasses, district_classes |-> DistrictClasses,
             crop_classes |-> FineClasses]
      [] OTHER ->
            [state_classes |-> <<>>, district_classes |-> <<>>,
             crop_classes |-> <<>>]

\* season_crop_map_v3.json: season -> (location key -> crop list), the keys
\* in the order of the file (json.load keeps it).
SeasonCropMapOf(tag) ==
    IF tag = "season_crop_map_v3.json"
    THEN [s \in {"KHARIF", "RABI"} |->
            IF s = "KHARIF"
            THEN << <<"PUNJAB_AMRITSAR",
                      <<"CEREALS_RICE", "CEREALS_MAIZE", "COTTON">> >>,
                    <<"PUNJAB_LUDHIANA",
                      <<"CEREALS_RICE", "CEREALS_MAIZE", "COTTON", "SUGARCANE",
                        "PULSES", "OILSEEDS", "VEGETABLES">> >>,
                    <<"GUJARAT_AHMEDABAD",
                      <<"COTTON", "OILSEEDS", "CEREALS_MILLETS", "PULSES">> >> >>
            ELSE << <<"PUNJAB_LUDHIANA",
                      <<"CEREALS_WHEAT", "CEREALS_BARLEY", "OILSEEDS">> >> >>]
    ELSE <<>>

(***************************************************************************)
(* Strings.                                                                *)
(***************************************************************************)
\* str.upper() on the strings the inputs are drawn from.
Upper(s) ==
    CASE s = "Punjab" -> "PUNJAB"
      [] s = "Ludhiana" -> "LUDHIANA"
      [] s = "Kharif" -> "KHARIF"
      [] s = "rabi" -> "RABI"
      [] OTHER -> s

\* k.startswith(s)
StartsWith(k, s) == Len(k) >= Len(s) /\ SubSeq(k, 1, Len(s)) = s

(***************************************************************************)
(* Iteration order of a set of strings.  CPython orders a set by the       *)
(* strings' hashes, which are salted per process: the order is fixed       *)
(* within a process and arbitrary across processes.  hash_order chooses    *)
(* it: the rank of a string in this process.                               *)
(***************************************************************************)
Names == Range(Categories) \cup Range(FineClasses)

NameIndex(n) ==
    IF n \in Range(Categories)
    THEN CHOOSE i \in 1..Len(Categories) : Categories[i] = n
    ELSE Len(Categories) + (CHOOSE i \in 1..Len(FineClasses) : FineClasses[i] = n)

HashOrders == {"asc", "desc"}

Rank(order, n) == IF order = "asc" THEN NameIndex(n) ELSE 0 - NameIndex(n)

\* list(S) / for x in S: the elements of S in this process's order.
RECURSIVE SetToSeq(_, _)
SetToSeq(order, S) ==
    IF S = {} THEN <<>>
    ELSE LET x == CHOOSE y \in S : \A z \in S : Rank(order, y) <= Rank(order, z)
         IN  <<x>> \o SetToSeq(order, S \ {x})

(***************************************************************************)
(* _get_crops_for_season(state, district, season).  The result is          *)
(* [raised, crops]: CropPredictorV3 reads self.season_crop_map without     *)
(* hasattr, which raises AttributeError when the attribute was never set.  *)
(***************************************************************************)
DefaultCrops(season) ==
    IF season \in DOMAIN DEFAULT_SEASON_CROPS
    THEN Range(DEFAULT_SEASON_CROPS[season]) ELSE {}

\* The index of the first entry from the i-th on whose key starts with the
\* state, or 0.
RECURSIVE FirstPrefixMatch(_, _, _)
FirstPrefixMatch(entries, state, i) ==
    IF i > Len(entries) THEN 0
    ELSE IF StartsWith(entries[i][1], state) THEN i
    ELSE FirstPrefixMatch(entries, state, i + 1)

\* The index of the entry with exactly this key, or 0.
ExactMatch(entries, key) ==
    IF \E i \in 1..Len(entries) : entries[i][1] = key
    THEN CHOOSE i \in 1..Len(entries) : entries[i][1] = key
    ELSE 0

HasSeasonMap(obj) == obj.val["season_crop_map"] \notin {"unset", "empty"}

get_crops_for_season(c, obj, state, district, season) ==
    LET tag == obj.val["season_crop_map"]
        smap == SeasonCropMapOf(tag)
        key == state \o "_" \o district
    IN  IF c = "CropPredictorV3" /\ tag = "unset"
        THEN [raised |-> TRUE, crops |-> {}]
        ELSE IF HasSeasonMap(obj) /\ season \in DOMAIN smap
        THEN LET exact == ExactMatch(smap[season], key)
                 pref == FirstPrefixMatch(smap[season], state, 1)
             IN  IF exact # 0
                 THEN [raised |-> FALSE, crops |-> Range(smap[season][exact][2])]
                 ELSE IF pref # 0
                 THEN [raised |-> FALSE, crops |-> Range(smap[season][pref][2])]
                 ELSE [raised |-> FALSE, crops |-> DefaultCrops(season)]
        ELSE [raised |-> FALSE, crops |-> DefaultCrops(season)]

(***************************************************************************)
(* FeatureInput: a mapping from some of the keys to values.                *)
(***************************************************************************)
Get(f, k, default) == IF k \in DOMAIN f THEN f[k] ELSE default

\* features[k] = v
Put(f, k, v) == [x \in DOMAIN f \cup {k} |-> IF x = k THEN v ELSE f[x]]

\* The sequence f[1], ..., f[n], each element evaluated once.
Seq1(f, n) == SubSeq(f, 1, n)

\* list.sort(key=..., reverse=True): descending and stable.  keys[i] is the
\* key of seq[i]; SortIdx gives the indices 1..i in sorted order.
RECURSIVE SortIdx(_, _)
SortIdx(keys, i) ==
    IF i = 0 THEN <<>>
    ELSE LET prev == SortIdx(keys, i - 1)
             n == Cardinality({j \in 1..Len(prev) : keys[prev[j]] >= keys[i]})
         IN  SubSeq(prev, 1, n) \o <<i>> \o SubSeq(prev, n + 1, Len(prev))

SortDesc(seq, keys) ==
    LET idx == SortIdx(keys, Len(seq))
    IN  Seq1([j \in 1..Len(seq) |-> seq[idx[j]]], Len(seq))

\* seq[:n]
Take(seq, n) == SubSeq(seq, 1, Min2(n, Len(seq)))

\* round(x, 1) of a score, in tenths of a point.  The code rounds a binary
\* float: a score that is exactly halfway between two tenths is held a
\* little above or a little below the halfway point, and round() follows
\* the held value.  `up` is the set of halfway scores (named by the tenth
\* below them) that are held above it.
IsHalfway(x) == 2 * (x % TenthOne) = TenthOne

RoundTenths(x, up) ==
    LET q == x \div TenthOne
        r == x % TenthOne
    IN  IF 2 * r < TenthOne THEN q
        ELSE IF 2 * r > TenthOne THEN q + 1
        ELSE IF q \in up THEN q + 1 ELSE q

\* The halfway scores among items, each named by the tenth below it.
HalfwayTenths(items) ==
    UNION {{its[i].score \div TenthOne :
                i \in {j \in 1..Len(its) : IsHalfway(its[j].score)}} :
            its \in {items}}

DefaultTemp2Predict == 2 * 25     \* features.get('avg_temperature', 25)
DefaultHumidity == 6 * 10         \* features.get('avg_humidity', 60)

(***************************************************************************)
(* CropPredictor._calculate_suitability_score_ml(crop_idx, probabilities,  *)
(* features).  idx counts from 1 here.                                     *)
(***************************************************************************)
ProbScoreMl(version, p) ==
    IF version \in {"v2", "v3"}
    THEN IF p >= 30 THEN 65 * ScoreOne + ((p - 30) * ScoreOne) \div 2
         ELSE IF p >= 15 THEN 50 * ScoreOne + (p - 15) * ScoreOne
         ELSE IF p >= 5 THEN 30 * ScoreOne + (p - 5) * 2 * ScoreOne
         ELSE p * 6 * ScoreOne
    ELSE Min2(50 * ScoreOne, p * 5 * ScoreOne)

EnvBonusMl(features) ==
    LET temp2 == Get(features, "avg_temperature", DefaultTemp2Predict)
        humidity == Get(features, "avg_humidity", DefaultHumidity)
    IN  (IF 40 <= temp2 /\ temp2 <= 64 THEN 8 * ScoreOne
         ELSE IF 30 <= temp2 /\ temp2 <= 70 THEN 4 * ScoreOne ELSE 0)
        + (IF 50 <= humidity /\ humidity <= 75 THEN 7 * ScoreOne
           ELSE IF 40 <= humidity /\ humidity <= 80 THEN 3 * ScoreOne ELSE 0)

calculate_suitability_score_ml(version, idx, probs, features) ==
    LET base == 30 * ScoreOne
                + (IF idx <= Len(probs) THEN ProbScoreMl(version, probs[idx]) ELSE 0)
                + EnvBonusMl(features)
    IN  Min2(100 * ScoreOne, Max2(0, base))

(***************************************************************************)
(* CropPredictorV3._calculate_suitability_score(crop, probability,         *)
(* features).                                                              *)
(***************************************************************************)
ProbScoreV3(p) ==
    IF p >= 20 THEN 50 * ScoreOne
    ELSE IF p >= 10 THEN 40 * ScoreOne + (p - 10) * ScoreOne
    ELSE IF p >= 5 THEN 25 * ScoreOne + (p - 5) * 3 * ScoreOne
    ELSE p * 5 * ScoreOne

calculate_suitability_score(crop, p, features) ==
    LET temp2 == Get(features, "avg_temperature", DefaultTemp2Predict)
        humidity == Get(features, "avg_humidity", DefaultHumidity)
        base == 30 * ScoreOne + ProbScoreV3(p)
                + calculate_temp_suitability(crop, temp2) * 15 * (ScoreOne \div SuitOne)
                + (IF 50 <= humidity /\ humidity <= 75 THEN 5 * ScoreOne
                   ELSE IF 40 <= humidity /\ humidity <= 80 THEN 3 * ScoreOne ELSE 0)
    IN  Min2(100 * ScoreOne, Max2(0, base))

(***************************************************************************)
(* The season adjustment and the temperature penalty of the two predict    *)
(* methods, applied to the base score of one candidate.                    *)
(***************************************************************************)
SeasonAdjustMl(score, is_season_match, temp_suit) ==
    IF is_season_match
    THEN Min2(100 * ScoreOne, (score * 5) \div 4)
            + temp_suit * 10 * (ScoreOne \div SuitOne)
    ELSE (score * 7) \div 20

TempPenaltyMl(score, temp_suit) ==
    IF 2 * temp_suit < SuitOne THEN (score * 4) \div 5 ELSE score

FinalScoreMl(score, is_season_match, temp_suit) ==
    TempPenaltyMl(SeasonAdjustMl(score, is_season_match, temp_suit), temp_suit)

SeasonAdjustV3_no_penalty(score, is_season_match) ==
    Min2(100 * ScoreOne, (score * 13) \div 10)

SeasonAdjustV3(score, is_season_match) ==
    IF is_season_match
    THEN Min2(100 * ScoreOne, (score * 13) \div 10)
    ELSE (score * 2) \div 5

TempPenaltyV3_halved(score, temp_suit) ==
    IF 2 * temp_suit < SuitOne THEN score \div 2 ELSE score

TempPenaltyV3(score, temp_suit) ==
    IF 2 * temp_suit < SuitOne THEN (score * 7) \div 10 ELSE score

FinalScoreV3(score, is_season_match, temp_suit) ==
    TempPenaltyV3(SeasonAdjustV3(score, is_season_match), temp_suit)

(***************************************************************************)
(* Recommendations.  suitabilityScore is round(score, 1), in tenths.       *)
(***************************************************************************)
Rec(crop, score, is_season_match, up) ==
    [cropName |-> crop, suitabilityScore |-> RoundTenths(score, up),
     seasonMatch |-> is_season_match]

RuleScoreNarrow(crop, temp2) ==
    50 * ScoreOne + calculate_temp_suitability(crop, temp2) * 30 * (ScoreOne \div SuitOne)

RuleScore(crop, temp2) ==
    50 * ScoreOne + calculate_temp_suitability(crop, temp2) * 40 * (ScoreOne \div SuitOne)

ScoreKeys(recs) ==
    Seq1([i \in 1..Len(recs) |-> recs[i].suitabilityScore], Len(recs))

SelectAtLeast30(items) == SelectSeq(items, LAMBDA it : it.score >= 30 * ScoreOne)

TopN == 5

\* The scoring loop of the two rule-based methods: one item per crop of
\* season_crops, in the iteration order of the set.
RuleItems(order, features, season_crops) ==
    LET temp2 == Get(features, "avg_temperature", DefaultTemp2Predict)
        crops == SetToSeq(order, season_crops)
    IN  Seq1([i \in 1..Len(crops) |->
                [crop_name |-> crops[i],
                 score |-> RuleScore(crops[i], temp2)]], Len(crops))

predict_with_rules_all_categories(order, features, season_crops, up) ==
    LET temp2 == Get(features, "avg_temperature", DefaultTemp2Predict)
        crops == SetToSeq(order, Range(Categories))
        recs == Seq1([i \in 1..Len(crops) |->
                        Rec(crops[i], RuleScore(crops[i], temp2), TRUE, up)],
                     Len(crops))
    IN  SortDesc(recs, ScoreKeys(recs))

(***************************************************************************)
(* CropPredictor._predict_with_rules(features, season_crops).              *)
(***************************************************************************)
predict_with_rules(order, features, season_crops, up) ==
    LET kept == SelectAtLeast30(RuleItems(order, features, season_crops))
        recs == Seq1([i \in 1..Len(kept) |->
                        Rec(kept[i].crop_name, kept[i].score, TRUE, up)],
                     Len(kept))
    IN  SortDesc(recs, ScoreKeys(recs))

(***************************************************************************)
(* CropPredictorV3._fallback_predictions(features, season_crops).  The     *)
(* loop body calls _predict_yield, which reads self.crop_profiles.         *)
(***************************************************************************)
fallback_predictions(obj, order, features, season_crops, up) ==
    LET items == RuleItems(order, features, season_crops)
        recs == Seq1([i \in 1..Len(items) |->
                        Rec(items[i].crop_name, items[i].score, TRUE, up)],
                     Len(items))
    IN  IF season_crops # {} /\ obj.val["crop_profiles"] = "unset"
        THEN [raised |-> TRUE, recs |-> <<>>]
        ELSE [raised |-> FALSE, recs |-> Take(SortDesc(recs, ScoreKeys(recs)), TopN)]

(***************************************************************************)
(* The model pass of the two predict methods: score every class, sort by   *)
(* (is_season_match, score) descending, look at the first `window`         *)
(* entries and keep those with score >= 30.                                *)
(***************************************************************************)
\* The key of a season match is 200 points above its score, which is above
\* every score: True sorts before False.
MatchKeys(items) ==
    Seq1([i \in 1..Len(items) |->
            (IF items[i].is_season_match THEN 200 * ScoreOne ELSE 0)
                + items[i].score],
         Len(items))

\* The body of the scoring loop for one class: its final score, given
\* whether the class is in the affinity set.
CandidateScore(c, version, crop, idx, probs, features, is_season_match, temp2) ==
    LET ts == calculate_temp_suitability(crop, temp2)
    IN  IF c = "CropPredictor"
        THEN FinalScoreMl(
                calculate_suitability_score_ml(version, idx, probs, features),
                is_season_match, ts)
        ELSE FinalScoreV3(
                calculate_suitability_score(crop, probs[idx], features),
                is_season_match, ts)

ModelItem(c, version, crop_classes, idx, probs, features, season_crops, temp2) ==
    LET crop == crop_classes[idx]
        m == crop \in season_crops
    IN  [crop_name |-> crop, is_season_match |-> m,
         temp_suitability |-> calculate_temp_suitability(crop, temp2),
         score |-> CandidateScore(c, version, crop, idx, probs, features, m,
                                  temp2)]

ModelWindow(c) == IF c = "CropPredictor" THEN 15 ELSE 10

ModelKept(c, obj, features, probs, season_crops, temp2) ==
    LET crop_classes == EncodersOf(obj.val["encoders"]).crop_classes
        n == Min2(Len(crop_classes), Len(probs))
        all_scores == Seq1([i \in 1..n |->
                                ModelItem(c, obj.model_version, crop_classes, i,
                                          probs, features, season_crops, temp2)],
                           n)
        sorted == SortDesc(all_scores, MatchKeys(all_scores))
    IN  SelectAtLeast30(Take(sorted, ModelWindow(c)))

ModelPass(kept, up) ==
    Seq1([i \in 1..Len(kept) |->
            Rec(kept[i].crop_name, kept[i].score, kept[i].is_season_match, up)],
         Len(kept))

\* The supplement loop: append the rule-based recommendations whose crop is
\* not among `existing`, while fewer than `cap` are held (CropPredictorV3
\* has no such test: its cap is never reached).
RECURSIVE Supplement_no_dedup(_, _, _, _, _)
Supplement_no_dedup(recs, rule_recs, existing, i, cap) ==
    IF i > Len(rule_recs) THEN recs
    ELSE IF Len(recs) < cap
    THEN Supplement_no_dedup(Append(recs, rule_recs[i]), rule_recs, existing,
                             i + 1, cap)
    ELSE Supplement_no_dedup(recs, rule_recs, existing, i + 1, cap)

RECURSIVE Supplement(_, _, _, _, _)
Supplement(recs, rule_recs, existing, i, cap) ==
    IF i > Len(rule_recs) THEN recs
    ELSE IF rule_recs[i].cropName \notin existing /\ Len(recs) < cap
    THEN Supplement(Append(recs, rule_recs[i]), rule_recs, existing, i + 1, cap)
    ELSE Supplement(recs, rule_recs, existing, i + 1, cap)

CropNames(recs) == {recs[i].cropName : i \in 1..Len(recs)}

\* The first lines of both predict methods: read the three strings, upper-case
\* them, and write them back into the caller's mapping.
Normalised(features) ==
    LET state == Upper(Get(features, "state", ""))
        district == Upper(Get(features, "district", ""))
        season == Upper(Get(features, "season", "KHARIF"))
    IN  Put(Put(Put(features, "state", state), "district", district),
            "season", season)

SupplementBelowMl == 5

(***************************************************************************)
(* CropPredictor.predict(features).  probs is what predict_proba returns   *)
(* for this input; fault says whether, and where, the model path raises    *)
(* ("scale": in _prepare_features, scaler.transform or predict_proba;      *)
(* "build": while the recommendations are built).                          *)
(***************************************************************************)
FinishMl_untruncated(recs, rule_recs) ==
    LET filled == IF Len(recs) < SupplementBelowMl
                  THEN Supplement(recs, rule_recs, CropNames(recs), 1, TopN)
                  ELSE recs
    IN  SortDesc(filled, ScoreKeys(filled))

FinishMl_unsupplemented(recs, rule_recs) ==
    Take(SortDesc(recs, ScoreKeys(recs)), TopN)

FinishMl(recs, rule_recs) ==
    LET filled == IF Len(recs) < SupplementBelowMl
                  THEN Supplement(recs, rule_recs, CropNames(recs), 1, TopN)
                  ELSE recs
    IN  Take(SortDesc(filled, ScoreKeys(filled)), TopN)

predict_ml(obj, order, features_in, probs, fault, up) ==
    LET features == Normalised(features_in)
        temp2 == Get(features_in, "avg_temperature", DefaultTemp2Predict)
        season_crops ==
            get_crops_for_season("CropPredictor", obj, features["state"],
                                 features["district"], features["season"]).crops
        rule_recs == predict_with_rules(order, features, season_crops, up)
        path == IF obj.use_ml_model = TRUE
                THEN IF fault = "none" THEN "model" ELSE "fallback"
                ELSE "rules"
        all_kept == IF path = "model"
                    THEN {ModelKept("CropPredictor", obj, features, probs,
                                    season_crops, temp2)}
                    ELSE {<<>>}
    IN  CHOOSE r \in
            {[raised |-> FALSE,
              out |-> FinishMl(IF path = "model" THEN ModelPass(kept, up)
                               ELSE rule_recs, rule_recs),
              path |-> path, features |-> features,
              season_crops |-> season_crops, obj |-> obj,
              halfway |-> HalfwayTenths(kept)
                          \cup HalfwayTenths(RuleItems(order, features,
                                                       season_crops))] :
                kept \in all_kept} : TRUE

(***************************************************************************)
(* CropPredictorV3.predict(features).                                      *)
(***************************************************************************)
SupplementBelowV3 == 3

FinishV3(recs, fb_recs) ==
    LET filled == IF Len(recs) < SupplementBelowV3
                  THEN Supplement(recs, fb_recs, CropNames(recs), 1,
                                  Len(recs) + Len(fb_recs) + 1)
                  ELSE recs
    IN  Take(SortDesc(filled, ScoreKeys(filled)), TopN)

predict_v3(obj, order, features_in, probs, fault, up) ==
    LET features == Normalised(features_in)
        temp2 == Get(features_in, "avg_temperature", DefaultTemp2Predict)
        gc == get_crops_for_season("CropPredictorV3", obj, features["state"],
                                   features["district"], features["season"])
        fb == fallback_predictions(obj, order, features, gc.crops, up)
        path == IF obj.use_ml_model = TRUE
                THEN IF fault = "none" THEN "model" ELSE "fallback"
                ELSE "rules"
        rule_half == HalfwayTenths(RuleItems(order, features, gc.crops))
    IN  IF gc.raised
        THEN [raised |-> TRUE, out |-> <<>>, path |-> "none",
              features |-> features, season_crops |-> {}, obj |-> obj,
              halfway |-> {}]
        ELSE IF path # "model"
        THEN [raised |-> fb.raised, out |-> fb.recs, path |-> path,
              features |-> features, season_crops |-> gc.crops, obj |-> obj,
              halfway |-> IF fb.raised THEN {} ELSE rule_half]
        ELSE CHOOSE r \in
            {IF Len(kept) < SupplementBelowV3 /\ fb.raised
             THEN [raised |-> TRUE, out |-> <<>>, path |-> path,
                   features |-> features, season_crops |-> gc.crops,
                   obj |-> obj, halfway |-> {}]
             ELSE [raised |-> FALSE,
                   out |-> FinishV3(ModelPass(kept, up), fb.recs),
                   path |-> path, features |-> features,
                   season_crops |-> gc.crops, obj |-> obj,
                   halfway |-> HalfwayTenths(kept)
                               \cup (IF Len(kept) < SupplementBelowV3
                                     THEN rule_half ELSE {})] :
                kept \in {ModelKept("CropPredictorV3", obj, features, probs,
                                    gc.crops, temp2)}} : TRUE

predict_disabling_model(c, obj, order, features_in, probs, fault, up) ==
    LET r == IF c = "CropPredictor"
             THEN predict_ml(obj, order, features_in, probs, fault, up)
             ELSE predict_v3(obj, order, features_in, probs, fault, up)
    IN  IF r.path = "fallback"
        THEN [r EXCEPT !.obj = [obj EXCEPT !.use_ml_model = FALSE]]
        ELSE r

\* the except handler keeps what the model pass had built
predict_keeping_built(c, obj, order, features_in, probs, fault, up) ==
    IF c = "CropPredictor"
    THEN LET r == predict_ml(obj, order, features_in, probs, fault, up)
         IN  IF r.path = "fallback" /\ fault = "build"
             THEN [r EXCEPT !.out = predict_ml(obj, order, features_in, probs,
                                               "none", up).out]
             ELSE r
    ELSE predict_v3(obj, order, features_in, probs, fault, up)

predict(c, obj, order, features_in, probs, fault, up) ==
    IF c = "CropPredictor"
    THEN predict_ml(obj, order, features_in, probs, fault, up)
    ELSE predict_v3(obj, order, features_in, probs, fault, up)

(***************************************************************************)
(* Inputs.  A component of a FeatureInput is a set holding its value, or   *)
(* the empty set when the key is absent from the mapping.                  *)
(***************************************************************************)
MkFeatures(state, district, season, temp2, humidity) ==
    LET comp == [k \in {"state", "district", "season", "avg_temperature",
                        "avg_humidity"} |->
                    CASE k = "state" -> state
                      [] k = "district" -> district
                      [] k = "season" -> season
                      [] k = "avg_temperature" -> temp2
                      [] k = "avg_humidity" -> humidity]
    IN  [k \in {x \in DOMAIN comp : comp[x] # {}} |-> CHOOSE v \in comp[k] : TRUE]

LocationInputs ==
    { <<{"Punjab"}, {"Ludhiana"}>>, <<{"PUNJAB"}, {"PATIALA"}>>,
      <<{"KERALA"}, {"KOCHI"}>>, <<{}, {}>> }

SeasonInputs ==
    { {"KHARIF"}, {"rabi"}, {"AUTUMN"}, {"WHOLE YEAR"}, {"MONSOON"}, {} }

\* 5, 20, 28 and 45 degrees Celsius, or no avg_temperature
Temp2Inputs == { {10}, {40}, {56}, {90}, {} }

HumidityInputs == { {30}, {45}, {60} }

FeatureInputs ==
    {MkFeatures(l[1], l[2], se, t, h) :
        l \in LocationInputs, se \in SeasonInputs, t \in Temp2Inputs,
        h \in HumidityInputs}

ProbeInputs ==
    {MkFeatures(l[1], l[2], se, {40}, {60}) :
        l \in {<<{"Punjab"}, {"Ludhiana"}>>, <<{}, {}>>},
        se \in {{"KHARIF"}, {"MONSOON"}}}

(***************************************************************************)
(* What predict_proba returns: a probability (in hundredths) per class.    *)
(* Flat: every class alike.  Peak: one class at `hi`, the others sharing   *)
(* the rest.  Short: a classifier that knows one class fewer than the      *)
(* encoder table, or only its first two classes (the scoring loops skip    *)
(* the classes the classifier has no column for).                          *)
(***************************************************************************)
Flat(n) == [i \in 1..n |-> ProbOne \div n]

Peak(n, k, hi) ==
    [i \in 1..n |-> IF i = k THEN hi ELSE (ProbOne - hi) \div (n - 1)]

ProbVectors(n) ==
    {Flat(n), Flat(n - 1), Flat(2)}
        \cup {Peak(n, k, hi) : k \in {4, 5}, hi \in {20, 100}}

\* The (probabilities, fault) pairs of a call on this object.
ModelOutcomes(obj) ==
    IF obj.use_ml_model = TRUE
    THEN LET n == Len(EncodersOf(obj.val["encoders"]).crop_classes)
         IN  (ProbVectors(n) \X {"none"}) \cup ({Flat(n)} \X {"scale", "build"})
    ELSE {<< <<>>, "none" >>}

ProbeOutcomes(obj) ==
    IF obj.use_ml_model = TRUE
    THEN LET n == Len(EncodersOf(obj.val["encoders"]).crop_classes)
         IN  {Flat(n)} \X {"none", "scale"}
    ELSE {<< <<>>, "none" >>}

(***************************************************************************)
(* The yield estimators.  Yields are kg per hectare; a quantity before     *)
(* rounding is a fraction <<numerator, denominator>> with a positive       *)
(* denominator.  round(x, 0) at an exact halfway value follows the float,  *)
(* so its direction is an input.                                           *)
(***************************************************************************)
RECURSIVE GCD(_, _)
GCD(a, b) == IF b = 0 THEN a ELSE GCD(b, a % b)

\* a temperature suitability as a fraction in lowest terms
SuitFrac(ts) == LET g == GCD(ts, SuitOne) IN <<ts \div g, SuitOne \div g>>

\* round(x, 0)
RoundUnits(x, up) ==
    LET fl == x[1] \div x[2]
        r2 == 2 * (x[1] - fl * x[2])
    IN  IF r2 > x[2] \/ (r2 = x[2] /\ up) THEN fl + 1 ELSE fl

\* the returned dict; ups = the directions of the three roundings
YieldDict(min_yield, max_yield, expected, ups) ==
    [min |-> RoundUnits(min_yield, ups[1]),
     max |-> RoundUnits(max_yield, ups[2]),
     expected |-> RoundUnits(expected, ups[3])]

default_yields ==
    [c \in Range(Categories) |->
        CASE c = "CEREALS_WHEAT" -> 3500 [] c = "CEREALS_RICE" -> 3000
          [] c = "CEREALS_MAIZE" -> 4000 [] c = "CEREALS_BARLEY" -> 2800
          [] c = "CEREALS_MILLETS" -> 1500 [] c = "PULSES" -> 1200
          [] c = "OILSEEDS" -> 1200 [] c = "SUGARCANE" -> 70000
          [] c = "COTTON" -> 500 [] c = "JUTE" -> 2500
          [] c = "TOBACCO" -> 1800 [] c = "VEGETABLES" -> 15000
          [] c = "FRUITS" -> 10000 [] c = "SPICES" -> 2000
          [] c = "PLANTATION" -> 5000 [] c = "FIBER" -> 1500]

\* base_yield * temp_suit with the 0.7 and 1.3 band
yield_from_defaults(crop, temp2, ups) ==
    LET s == SuitFrac(calculate_temp_suitability(crop, temp2))
        base_yield == Get(default_yields, crop, 2000)
    IN  YieldDict(<<7 * base_yield * s[1], 10 * s[2]>>,
                  <<13 * base_yield * s[1], 10 * s[2]>>,
                  <<base_yield * s[1], s[2]>>, ups)

\* yield_mean * temp_suit, a band of yield_std around it
yield_from_profile(profile, crop, temp2, ups) ==
    LET s == SuitFrac(calculate_temp_suitability(crop, temp2))
        yield_mean == Get(profile, "yield_mean", 2000)
        yield_std == Get(profile, "yield_std", 500)
        expected == yield_mean * s[1]
    IN  YieldDict(<<Max2(100 * s[2], expected - yield_std * s[2]), s[2]>>,
                  <<expected + yield_std * s[2], s[2]>>,
                  <<expected, s[2]>>, ups)

\* The regressor's prediction blended with the district's record and
\* clamped; quantities in thousandths of a kg.  The record, like the
\* prediction, is given in kg (tonnes * 1000); historical = what
\* _get_district_historical_data returned, None (found = FALSE) and an
\* empty record being falsy.
yield_from_regressor(predicted_yield_kg, historical, ups) ==
    LET pred == 1000 * predicted_yield_kg
        rec == historical.val
        blend == historical.found /\ DOMAIN rec /= {}
        hist_avg == 1000 * Get(rec, "avg_yield", predicted_yield_kg)
        hist_min == IF "min_yield" \in DOMAIN rec
                    THEN 1000 * rec["min_yield"]
                    ELSE 700 * predicted_yield_kg
        hist_max == IF "max_yield" \in DOMAIN rec
                    THEN 1000 * rec["max_yield"]
                    ELSE 1300 * predicted_yield_kg
        expected0 == IF blend THEN (4 * pred + 6 * hist_avg) \div 10 ELSE pred
        min_yield0 == IF blend THEN Min2((8 * pred) \div 10, hist_min)
                      ELSE (8 * pred) \div 10
        max_yield0 == IF blend THEN Max2((12 * pred) \div 10, hist_max)
                      ELSE (12 * pred) \div 10
        expected == Max2(100 * 1000, expected0)
        min_yield == Max2(50 * 1000, min_yield0)
        max_yield == Max2((11 * expected) \div 10, max_yield0)
    IN  YieldDict(<<min_yield, 1000>>, <<max_yield, 1000>>,
                  <<expected, 1000>>, ups)

\* A record of a json file that holds null where a number is expected: the
\* key "null" names the key concerned.  Arithmetic on it raises TypeError.
HasNull(record) == record.found /\ "null" \in DOMAIN record.val

\* CropPredictor._predict_yield_ml.  profile = the crop's entry of
\* crop_profiles under the location's key, <<>> when there is none;
\* regressor = the yield regressor's prediction in kg, {} when it raises.
\* The except branch returns 1000, 3000, 2000.  A missing avg_temperature
\* is 28.0 here.
predict_yield_ml(model_version, crop, features, profile, regressor, historical, ups) ==
    LET temp2 == Get(features, "avg_temperature", 2 * 28)
    IN  IF model_version = "v3"
        THEN IF HasNull(profile)
             THEN [min |-> 1000, max |-> 3000, expected |-> 2000]
             ELSE IF profile.found
             THEN yield_from_profile(profile.val, crop, temp2, ups)
             ELSE yield_from_defaults(crop, temp2, ups)
        ELSE IF regressor = {} \/ HasNull(historical)
             THEN [min |-> 1000, max |-> 3000, expected |-> 2000]
             ELSE yield_from_regressor(CHOOSE y \in regressor : TRUE,
                                       historical, ups)

\* CropPredictorV3._predict_yield has no try: it raises on such a profile
predict_yield_v3_raises(profile) == HasNull(profile)

\* CropPredictorV3._predict_yield, where it returns
predict_yield_v3(crop, features, profile, ups) ==
    LET temp2 == Get(features, "avg_temperature", DefaultTemp2Predict)
    IN  IF profile.found
        THEN yield_from_profile(profile.val, crop, temp2, ups)
        ELSE yield_from_defaults(crop, temp2, ups)

\* the yield that _predict_with_rules attaches to a recommendation
predict_yield_rules(crop, features, ups) ==
    yield_from_defaults(crop, Get(features, "avg_temperature",
                                  DefaultTemp2Predict), ups)

(***************************************************************************)
(* _prepare_features.  A feature vector is a sequence of entries           *)
(* [q |-> the quantity carried, val |-> its value]; temperatures are in    *)
(* half degrees, every other value in the unit of the source.  The json    *)
(* encoders are a function from table name to list of classes.             *)
(***************************************************************************)
Entry(q, val) == [q |-> q, val |-> val]

\* list.index(x) counted from 1
index_from_one(list, x) ==
    IF x \in Range(list)
    THEN CHOOSE i \in 1..Len(list) :
            list[i] = x /\ \A j \in 1..(i - 1) : list[j] /= x
    ELSE -1

\* list.index(x), counted from 0; -1 stands for the ValueError it raises
index(list, x) ==
    IF x \in Range(list)
    THEN (CHOOSE i \in 1..Len(list) :
            list[i] = x /\ \A j \in 1..(i - 1) : list[j] /= x) - 1
    ELSE -1

\* x_encoded = list.index(x) without the membership test
encode_unguarded(list, x) == index(list, x)

\* x_encoded = 0, then: if x in list: x_encoded = list.index(x)
encode(list, x) == IF x \in Range(list) THEN index(list, x) ELSE 0

\* CropPredictor's table for encoders without season_classes
season_mapping ==
    [s \in {"KHARIF", "RABI", "WHOLE YEAR", "SUMMER", "WINTER", "AUTUMN"} |->
        CASE s = "KHARIF" -> 0 [] s = "RABI" -> 1 [] s = "WHOLE YEAR" -> 2
          [] s = "SUMMER" -> 3 [] s = "WINTER" -> 4 [] s = "AUTUMN" -> 5]

encode_season(c, encoders, season) ==
    IF "season_classes" \in DOMAIN encoders
    THEN encode(encoders["season_classes"], season)
    ELSE IF c = "CropPredictor" THEN Get(season_mapping, season, 0) ELSE 0

RECURSIVE SumSeq(_)
SumSeq(s) == IF s = <<>> THEN 0 ELSE Head(s) + SumSeq(Tail(s))

\* CropPredictor's yield_mean of the v2 vector: np.mean of the avg_yield of
\* the district's crops (whole for the contents modelled), 2000.0 without
\* the district or without crops.  district = district_profiles[key], its
\* 'crops' values as a sequence.
district_yield_mean(district) ==
    IF district.found /\ district.val /= <<>>
    THEN SumSeq([i \in 1..Len(district.val) |->
                    Get(district.val[i], "avg_yield", 2000)])
         \div Len(district.val)
    ELSE 2000

\* state_encoded, district_encoded, season_encoded, the six micronutrients
VectorHead(c, encoders, features) ==
    LET state == Upper(Get(features, "state", ""))
        district == Upper(Get(features, "district", ""))
        season == Upper(Get(features, "season", "KHARIF"))
    IN  <<Entry("state_encoded",
                encode(Get(encoders, "state_classes", <<>>), state)),
          Entry("district_encoded",
                encode(Get(encoders, "district_classes", <<>>), district)),
          Entry("season_encoded", encode_season(c, encoders, season)),
          Entry("zn", 60), Entry("fe", 80), Entry("cu", 90), Entry("mn", 85),
          Entry("b", 70), Entry("s", 75)>>

\* the v2 vector's tail: temperature and humidity with their spread
SpreadTail(temperature, humidity, moisture) ==
    <<Entry("temperature - 5", temperature - 2 * 5),
      Entry("temperature + 5", temperature + 2 * 5),
      Entry("temperature", temperature),
      Entry("humidity - 15", Max2(30, humidity - 15)),
      Entry("humidity + 15", Min2(100, humidity + 15)),
      Entry("humidity", humidity),
      Entry("moisture", moisture),
      Entry("nitrogen", 100), Entry("potassium", 150),
      Entry("phosphorus", 20)>>

\* feature_cols of the training scripts, as the quantities they hold: the
\* 16 columns of the v3 classifier (state_enc ... avg_area, temp_mean,
\* humidity_mean, nitrogen_mean, potassium_mean, phosphorus_mean), the 21 of
\* the v2 classifier (... total_area, env_temp_min, env_temp_max,
\* env_temp_mean, env_humidity_min, env_humidity_max, env_humidity_mean,
\* env_moisture_mean, env_nitrogen_mean, env_potassium_mean,
\* env_phosphorus_mean) and the 15 of the v1 classifier (season_encoded,
\* zn ... s, opt_temperature ... opt_phosphorus, state_encoded,
\* district_encoded).
feature_columns(version) ==
    LET categorical == <<"state_encoded", "district_encoded", "season_encoded">>
        soil == <<"zn", "fe", "cu", "mn", "b", "s">>
        npk == <<"nitrogen", "potassium", "phosphorus">>
    IN  CASE version = "v3" ->
                categorical \o soil \o <<"yield_mean", "area", "temperature",
                                         "humidity">> \o npk
          [] version = "v2" ->
                categorical \o soil
                \o <<"yield_mean", "area", "temperature - 5",
                     "temperature + 5", "temperature", "humidity - 15",
                     "humidity + 15", "humidity", "moisture">> \o npk
          [] OTHER ->
                <<"season_encoded">> \o soil
                \o <<"temperature", "humidity", "moisture">> \o npk
                \o <<"state_encoded", "district_encoded">>

\* _prepare_features building the v2 vector with the v3 vector's tail
prepare_features_mixed(c, model_version, encoders, district, features) ==
    LET head == VectorHead(c, encoders, features)
        temperature == Get(features, "avg_temperature", 2 * 28)
        humidity == Get(features, "avg_humidity", 60)
    IN  IF model_version \in {"v3", "v2"}
        THEN head \o <<Entry("yield_mean", 2000), Entry("area", 1000),
                       Entry("temperature", temperature),
                       Entry("humidity", humidity), Entry("nitrogen", 100),
                       Entry("potassium", 150), Entry("phosphorus", 20)>>
        ELSE <<head[3]>> \o SubSeq(head, 4, 9)
             \o <<Entry("temperature", temperature),
                  Entry("humidity", humidity), Entry("moisture", 45),
                  Entry("nitrogen", 100), Entry("potassium", 150),
                  Entry("phosphorus", 20), head[1], head[2]>>

\* CropPredictor._prepare_features and CropPredictorV3._prepare_features
prepare_features(c, model_version, encoders, district, features) ==
    LET head == VectorHead(c, encoders, features)
        temperature == Get(features, "avg_temperature", 2 * 28)
        humidity == Get(features, "avg_humidity", 60)
    IN  IF model_version = "v3"
        THEN head \o <<Entry("yield_mean", 2000), Entry("area", 1000),
                       Entry("temperature", temperature),
                       Entry("humidity", humidity), Entry("nitrogen", 100),
                       Entry("potassium", 150), Entry("phosphorus", 20)>>
        ELSE IF c = "CropPredictorV3"
        THEN head \o <<Entry("yield_mean", 2000), Entry("area", 1000)>>
                  \o SpreadTail(temperature, humidity, 45)
        ELSE IF model_version = "v2"
        THEN head \o <<Entry("yield_mean", district_yield_mean(district)),
                       Entry("area", 1000)>>
                  \o SpreadTail(temperature, humidity, 45)
        ELSE <<head[3]>> \o SubSeq(head, 4, 9)
             \o <<Entry("temperature", temperature),
                  Entry("humidity", humidity), Entry("moisture", 45),
                  Entry("nitrogen", 100), Entry("potassium", 150),
                  Entry("phosphorus", 20), head[1], head[2]>>

\* the v2 branch of _predict_yield_ml: the 20 features of the yield
\* regressor, the crop encoded after the season
yield_features(encoders, crop, features) ==
    LET head == VectorHead("CropPredictorV3", encoders, features)
        temperature == Get(features, "avg_temperature", 2 * 28)
        humidity == Get(features, "avg_humidity", 60)
    IN  SubSeq(head, 1, 3)
        \o <<Entry("crop_encoded",
                   encode(Get(encoders, "crop_classes", <<>>), crop))>>
        \o SubSeq(head, 4, 9) \o SpreadTail(temperature, humidity, 45)

\* an index of -1 is the ValueError of list.index
Raises(vector) == \E i \in 1..Len(vector) : vector[i].val < 0 /\
                    vector[i].q \in {"state_encoded", "district_encoded",
                                     "season_encoded", "crop_encoded"}

(***************************************************************************)
(* CropPredictor.get_coordinates(district, state) under                    *)
(* @lru_cache(maxsize=100), on one predictor object.  The cache is the     *)
(* sequence of its entries, least recently used first.  outcome is what    *)
(* the geocoding request does when the body runs: "found" (a result with   *)
(* coordinates), "empty" (no results) or "error" (requests.get or the      *)
(* parsing raises; the bare except swallows it).  Coordinates are in       *)
(* ten-thousandths of a degree; districts are named by number, and the     *)
(* geocoder places district d at (30 + d/10000, 75 + d/10000).             *)
(***************************************************************************)
maxsize == 100

get_coordinates_caching_found_only(cache, district, state, outcome) ==
    LET key == <<district, state>>
        hits == {i \in 1..Len(cache) : cache[i].key = key}
        result == IF outcome = "found"
                  THEN <<300000 + district, 750000 + district>>
                  ELSE <<205937, 789629>>
        room == IF Len(cache) >= maxsize THEN Tail(cache) ELSE cache
    IN  IF hits # {}
        THEN LET e == cache[CHOOSE i \in hits : TRUE]
             IN  [cache |-> Append(SelectSeq(cache, LAMBDA x : x.key # key), e),
                  result |-> e.value, network |-> FALSE]
        ELSE [cache |-> IF outcome = "found"
                        THEN Append(room, [key |-> key, value |-> result])
                        ELSE cache,
              result |-> result, network |-> TRUE]

get_coordinates(cache, district, state, outcome) ==
    LET key == <<district, state>>
        hits == {i \in 1..Len(cache) : cache[i].key = key}
        result == IF outcome = "found"
                  THEN <<300000 + district, 750000 + district>>
                  ELSE <<205937, 789629>>
        room == IF Len(cache) >= maxsize THEN Tail(cache) ELSE cache
    IN  IF hits # {}
        THEN LET e == cache[CHOOSE i \in hits : TRUE]
             IN  [cache |-> Append(SelectSeq(cache, LAMBDA x : x.key # key), e),
                  result |-> e.value, network |-> FALSE]
        ELSE [cache |-> Append(room, [key |-> key, value |-> result]),
              result |-> result, network |-> TRUE]

(***************************************************************************)
(* predict, one stretch of its body at a time, for calls that run in       *)
(* threads on one object.  l holds the locals of one call (and the mapping *)
(* it was given, which is the caller's own); pc is the point reached:      *)
(* "start", "normalised" (the three strings are written back),             *)
(* "crops" (season_crops is assigned), "built" (recommendations holds the  *)
(* model pass's or the rule-based list), "done" (returned or raised).  A   *)
(* thread can be suspended between any two stretches; within a stretch     *)
(* the body reads self and its locals only.  Halfway scores are held below *)
(* the halfway point.                                                      *)
(***************************************************************************)
predict_step(c, obj, order, l) ==
    LET path == IF obj.use_ml_model = TRUE
                THEN IF l.fault = "none" THEN "model" ELSE "fallback"
                ELSE "rules"
        gc == get_crops_for_season(c, obj, l.features["state"],
                                   l.features["district"], l.features["season"])
        kept == ModelKept(c, obj, l.features, l.probs, l.season_crops, l.temp2)
        rule_recs == predict_with_rules(order, l.features, l.season_crops, {})
        fb == fallback_predictions(obj, order, l.features, l.season_crops, {})
    IN  CASE l.pc = "start" ->
                [l EXCEPT !.pc = "normalised",
                          !.temp2 = Get(l.features_in, "avg_temperature",
                                        DefaultTemp2Predict),
                          !.features = Normalised(l.features_in)]
          [] l.pc = "normalised" ->
                IF gc.raised THEN [l EXCEPT !.pc = "done", !.raised = TRUE]
                ELSE [l EXCEPT !.pc = "crops", !.season_crops = gc.crops]
          [] l.pc = "crops" /\ c = "CropPredictor" ->
                [l EXCEPT !.pc = "built",
                          !.recs = IF path = "model" THEN ModelPass(kept, {})
                                   ELSE rule_recs]
          [] l.pc = "crops" /\ c # "CropPredictor" ->
                IF path = "model"
                THEN [l EXCEPT !.pc = "built", !.recs = ModelPass(kept, {})]
                ELSE [l EXCEPT !.pc = "done", !.raised = fb.raised,
                               !.out = fb.recs]
          [] l.pc = "built" /\ c = "CropPredictor" ->
                [l EXCEPT !.pc = "done", !.out = FinishMl(l.recs, rule_recs)]
          [] l.pc = "built" /\ c # "CropPredictor" ->
                IF Len(l.recs) < SupplementBelowV3 /\ fb.raised
                THEN [l EXCEPT !.pc = "done", !.raised = TRUE]
                ELSE [l EXCEPT !.pc = "done", !.out = FinishV3(l.recs, fb.recs)]

\* season_crops is kept where the other calls see it: a call reads what the
\* last call to assign it left there.
predict_thread_sharing_crops(c, obj, order, calls, t) ==
    LET others == {u \in DOMAIN calls :
                        u # t /\ calls[u].pc \in {"crops", "built", "done"}
                              /\ ~calls[u].raised}
        l == calls[t]
    IN  IF l.pc \in {"crops", "built"} /\ others # {}
        THEN predict_step(c, obj, order,
                [l EXCEPT !.season_crops =
                        calls[CHOOSE u \in others : TRUE].season_crops])
        ELSE predict_step(c, obj, order, l)

\* The next stretch of thread t's call: it works on that call's locals.
predict_thread(c, obj, order, calls, t) == predict_step(c, obj, order, calls[t])

(***************************************************************************)
(* The state machine.                                                      *)
(***************************************************************************)
NoCall ==
    [done |-> FALSE, features_in |-> <<>>, probs |-> <<>>, fault |-> "none",
     raised |-> FALSE, out |-> <<>>, path |-> "none", features |-> <<>>,
     season_crops |-> {}, up |-> {}]

IdleFn == [crop |-> "", t2 |-> 0, out |-> 0, done |-> FALSE]

IdleCand ==
    [cls |-> "", version |-> "", crop |-> "", p |-> 0, temp2 |-> {},
     humidity |-> {}, prob_score |-> 0, in_set |-> 0, out_of_set |-> 0,
     done |-> FALSE]

\* no entry under the key that was looked up
NoRecord == [found |-> FALSE, val |-> <<>>]

IdleYield ==
    [at |-> "", version |-> "", crop |-> "", features |-> <<>>,
     profile |-> [found |-> FALSE, val |-> <<>>], regressor |-> {},
     historical |-> [found |-> FALSE, val |-> <<>>], ups |-> <<FALSE, FALSE, FALSE>>,
     out |-> [min |-> 0, max |-> 0, expected |-> 0], raised |-> FALSE,
     done |-> FALSE]

IdleEnc ==
    [cls |-> "", version |-> "", encoders |-> "", district |-> NoRecord,
     crop |-> "", features |-> MkFeatures({}, {}, {}, {}, {}),
     vector |-> <<>>, yield_vector |-> <<>>, raised |-> FALSE,
     done |-> FALSE]

\* get_coordinates has not been called: cache_info() is all zeros.
NoLookups ==
    [cache |-> <<>>, next |-> 1,
     last |-> [key |-> <<0, "">>, result |-> <<0, 0>>, network |-> FALSE]]

\* No thread has called predict.
NoThreads ==
    [t \in {1, 2} |->
        [pc |-> "idle", features_in |-> <<>>, probs |-> <<>>, fault |-> "none",
         temp2 |-> 0, features |-> <<>>, season_crops |-> {}, recs |-> <<>>,
         out |-> <<>>, raised |-> FALSE]]

\* No earlier call is remembered.
NoFirst == [done |-> FALSE, restarted |-> FALSE, up |-> {}, call |-> NoCall]

Init ==
    /\ cls \in Classes
    /\ files \in CoreConfigs
    /\ hash_order \in HashOrders
    /\ pc = "new"
    /\ thr = NoThreads
    /\ geo = NoLookups
    /\ enc = IdleEnc
    /\ yld = IdleYield
    /\ first = NoFirst
    /\ self = NewObject
    /\ call = NoCall
    /\ failed_before = FALSE
    /\ fn = IdleFn
    /\ cand = IdleCand

InitLoad ==
    /\ cls \in Classes
    /\ files \in FileConfigs
    /\ hash_order = "asc"
    /\ pc = "new"
    /\ thr = NoThreads
    /\ geo = NoLookups
    /\ enc = IdleEnc
    /\ yld = IdleYield
    /\ first = NoFirst
    /\ self = NewObject
    /\ call = NoCall
    /\ failed_before = FALSE
    /\ fn = IdleFn
    /\ cand = IdleCand

\* __init__: _load_models()
Construct ==
    /\ pc = "new"
    /\ self' = load_models(cls, files)
    /\ pc' = "ready"
    /\ UNCHANGED <<cls, files, hash_order, call, failed_before, fn, cand,
                   first, yld, enc, geo, thr>>

\* The halfway scores of a call that can reach the returned list: one that
\* is more than a tenth below the last of five returned scores is cut off
\* whichever way it is rounded.
Returnable(r) ==
    IF Len(r.out) < TopN THEN r.halfway
    ELSE {q \in r.halfway : q + 1 >= r.out[Len(r.out)].suitabilityScore}

\* One predict call, from its first line to its return or its exception.
\* The object after the call is the one predict leaves behind.  Every
\* halfway score the call rounds is held above or below its halfway point.
DoPredict(features_in, probs, fault) ==
    \E r0 \in {predict(cls, self, hash_order, features_in, probs, fault, {})} :
    \E up \in SUBSET Returnable(r0) :
    \E r \in (IF up = {} THEN {r0}
              ELSE {predict(cls, self, hash_order, features_in, probs, fault, up)}) :
        /\ call' = [done |-> TRUE, features_in |-> features_in, probs |-> probs,
                    fault |-> fault, raised |-> r.raised, out |-> r.out,
                    path |-> r.path, features |-> r.features,
                    season_crops |-> r.season_crops, up |-> up]
        /\ self' = r.obj
        /\ pc' = "called"
        /\ UNCHANGED <<cls, files, hash_order, failed_before, fn, cand, first,
                       yld, enc, geo, thr>>

\* A call on the constructed object.  Once a call has failed in the model
\* path, the calls that follow are drawn from the probe inputs.
Predict ==
    /\ pc = "ready"
    /\ \E features_in \in (IF failed_before THEN ProbeInputs ELSE FeatureInputs),
          o \in (IF failed_before THEN ProbeOutcomes(self) ELSE ModelOutcomes(self)) :
            DoPredict(features_in, o[1], o[2])

PredictProbe ==
    /\ pc = "ready"
    /\ \E features_in \in ProbeInputs, o \in ProbeOutcomes(self) :
            DoPredict(features_in, o[1], o[2])

\* The caller has its result (or its exception); the object serves again.
Return ==
    /\ pc = "called"
    /\ pc' = "ready"
    /\ call' = NoCall
    /\ failed_before' = (failed_before \/ call.path = "fallback")
    /\ UNCHANGED <<cls, files, hash_order, self, fn, cand, first, yld, enc,
                   geo, thr>>

Next == Construct \/ Predict \/ Return

Spec == Init /\ [][Next]_vars

NextLoad == Construct \/ PredictProbe

SpecLoad == InitLoad /\ [][NextLoad]_vars

(***************************************************************************)
(* The temperature suitability function on its own: every category of the  *)
(* table and a name outside it, every half degree of the grid.             *)
(***************************************************************************)
MaxTemp2 == 190

TempGrid == (0 - MaxTemp2)..MaxTemp2

InitTemp ==
    /\ cls = "CropPredictor"
    /\ files = EmptyDir
    /\ hash_order = "asc"
    /\ pc = "new"
    /\ thr = NoThreads
    /\ geo = NoLookups
    /\ enc = IdleEnc
    /\ yld = IdleYield
    /\ first = NoFirst
    /\ self = NewObject
    /\ call = NoCall
    /\ failed_before = FALSE
    /\ fn \in [crop : Range(Categories) \cup {"RICE"}, t2 : TempGrid,
               out : {0}, done : {FALSE}]
    /\ cand = IdleCand

ApplyTempSuitability ==
    /\ ~fn.done
    /\ fn' = [fn EXCEPT !.out = calculate_temp_suitability(fn.crop, fn.t2),
                        !.done = TRUE]
    /\ UNCHANGED <<cls, files, hash_order, pc, self, call, failed_before,
                   cand, first, yld, enc, geo, thr>>

SpecTemp == InitTemp /\ [][ApplyTempSuitability]_vars

(***************************************************************************)
(* The scoring of one candidate of the model pass on its own: every class  *)
(* and model format, every probability in hundredths, the temperatures and *)
(* humidities below.  The candidate is scored twice, as a member of the    *)
(* affinity set and as a non-member; prob_score is the local of that name  *)
(* in the class's scoring function.                                        *)
(***************************************************************************)
CandVersions(c) == Range(ProbeOrder(c))

InitScore ==
    /\ cls = "CropPredictor"
    /\ files = EmptyDir
    /\ hash_order = "asc"
    /\ pc = "new"
    /\ thr = NoThreads
    /\ geo = NoLookups
    /\ enc = IdleEnc
    /\ yld = IdleYield
    /\ first = NoFirst
    /\ self = NewObject
    /\ call = NoCall
    /\ failed_before = FALSE
    /\ fn = IdleFn
    \* 5, 20, 28, 32, 35, 45 and 60 degrees Celsius, or no avg_temperature
    /\ \E c \in Classes, p \in 0..ProbOne, h \in HumidityInputs,
          t \in { {10}, {40}, {56}, {64}, {70}, {90}, {120}, {} } :
        \E v \in CandVersions(c) :
        \E crop \in (IF v = "v1" THEN Range(FineClasses)
                     ELSE Range(CoarseClasses)) :
            cand = [cls |-> c, version |-> v, crop |-> crop, p |-> p,
                    temp2 |-> t, humidity |-> h, prob_score |-> 0,
                    in_set |-> 0, out_of_set |-> 0, done |-> FALSE]

ApplyCandidateScore ==
    /\ ~cand.done
    /\ LET features == MkFeatures({}, {}, {}, cand.temp2, cand.humidity)
           temp2 == Get(features, "avg_temperature", DefaultTemp2Predict)
       IN  cand' = [cand EXCEPT
                !.prob_score = IF cand.cls = "CropPredictor"
                               THEN ProbScoreMl(cand.version, cand.p)
                               ELSE ProbScoreV3(cand.p),
                !.in_set = CandidateScore(cand.cls, cand.version, cand.crop, 1,
                                          <<cand.p>>, features, TRUE, temp2),
                !.out_of_set = CandidateScore(cand.cls, cand.version, cand.crop,
                                              1, <<cand.p>>, features, FALSE,
                                              temp2),
                !.done = TRUE]
    /\ UNCHANGED <<cls, files, hash_order, pc, self, call, failed_before, fn,
                   first, yld, enc, geo, thr>>

SpecScore == InitScore /\ [][ApplyCandidateScore]_vars

(***************************************************************************)
(* A call and a repeat of it: the same mapping (as the first call left it, *)
(* or an equal fresh one), the same classifier output, unchanged           *)
(* artifacts.  The repeat is served by the same process, or by a process   *)
(* started on the same directory in between; a Python process draws its    *)
(* string hashes, hence the iteration order of its sets, when it starts.   *)
(* The same float computation rounds the same way both times.              *)
(***************************************************************************)
RepeatInputs ==
    {MkFeatures(l[1], l[2], se, t, {30}) :
        l \in {<<{"Punjab"}, {"Ludhiana"}>>, <<{}, {}>>},
        se \in {{"WHOLE YEAR"}, {"rabi"}, {}},
        t \in {{10}, {}}}

InitRepeat ==
    /\ cls \in Classes
    /\ files \in {EmptyDir, MkFiles(Whole, Whole, Whole, "ok", "ok")}
    /\ hash_order \in HashOrders
    /\ pc = "new"
    /\ thr = NoThreads
    /\ geo = NoLookups
    /\ enc = IdleEnc
    /\ yld = IdleYield
    /\ first = NoFirst
    /\ self = NewObject
    /\ call = NoCall
    /\ failed_before = FALSE
    /\ fn = IdleFn
    /\ cand = IdleCand

PredictFirst ==
    /\ pc = "ready"
    /\ ~first.done
    /\ \E features_in \in RepeatInputs, o \in ModelOutcomes(self) :
       \E r0 \in {predict(cls, self, hash_order, features_in, o[1], o[2], {})} :
       \E up \in SUBSET Returnable(r0) :
       \E r \in {predict(cls, self, hash_order, features_in, o[1], o[2], up)} :
       \E c \in {[done |-> TRUE, features_in |-> features_in, probs |-> o[1],
                  fault |-> o[2], raised |-> r.raised, out |-> r.out,
                  path |-> r.path, features |-> r.features,
                  season_crops |-> r.season_crops, up |-> up]} :
            /\ call' = c
            /\ first' = [done |-> TRUE, restarted |-> FALSE, up |-> up,
                         call |-> c]
            /\ self' = r.obj
            /\ pc' = "called"
            /\ UNCHANGED <<cls, files, hash_order, failed_before, fn, cand,
                           yld, enc, geo, thr>>

\* The service is started again on the unchanged directory.
Restart ==
    /\ pc = "ready"
    /\ first.done
    /\ ~first.restarted
    /\ hash_order' \in HashOrders
    /\ self' = load_models(cls, files)
    /\ first' = [first EXCEPT !.restarted = TRUE]
    /\ failed_before' = FALSE
    /\ UNCHANGED <<cls, files, pc, call, fn, cand, yld, enc, geo, thr>>

PredictAgain ==
    /\ pc = "ready"
    /\ first.done
    /\ \E features_in \in {first.call.features_in, first.call.features} :
       \E r \in {predict(cls, self, hash_order, features_in, first.call.probs,
                         first.call.fault, first.up)} :
            /\ call' = [done |-> TRUE, features_in |-> features_in,
                        probs |-> first.call.probs, fault |-> first.call.fault,
                        raised |-> r.raised, out |-> r.out, path |-> r.path,
                        features |-> r.features,
                        season_crops |-> r.season_crops, up |-> first.up]
            /\ self' = r.obj
            /\ pc' = "again"
            /\ UNCHANGED <<cls, files, hash_order, failed_before, fn, cand,
                           first, yld, enc, geo, thr>>

NextRepeat == Construct \/ PredictFirst \/ Return \/ Restart \/ PredictAgain

SpecRepeat == InitRepeat /\ [][NextRepeat]_vars

(***************************************************************************)
(* The yield estimators on their own: the three places that attach a       *)
(* yield range to a recommendation, applied to one crop under one          *)
(* temperature, crop profile, regressor output and district record.        *)
(***************************************************************************)
\* The crops: the smallest and the largest default yield, a middle one, and
\* a v1 crop name that has neither a default yield nor a temperature range.
\* The temperatures: 5, 20, 28 and 45 degrees Celsius, or no
\* avg_temperature.  The profiles, crop_profiles[key][crop]: yield_mean and
\* yield_std in kg/hectare, or null.  The regressor's outputs: expm1(log_yield) *
\* 1000, which is above -1000 kg, or {} when it raises.  The records,
\* district_profiles[key]['crops'][crop]: in kg/hectare.
YieldInputs ==
    LET YieldCrops == {"COTTON", "CEREALS_WHEAT", "SUGARCANE", "RICE"}
        YieldTemp2Inputs == { {10}, {40}, {56}, {90}, {} }
        YieldProfiles ==
            {NoRecord, [found |-> TRUE, val |-> <<>>],
             [found |-> TRUE, val |-> [null |-> "yield_mean"]]}
            \cup {[found |-> TRUE,
                   val |-> [yield_mean |-> m, yield_std |-> d]] :
                    m \in {0, 60, 300, 2000}, d \in {0, 500}}
        RegressorOutputs == { {}, {-500}, {0}, {60}, {2500} }
        YieldRecords ==
            {NoRecord, [found |-> TRUE, val |-> <<>>],
             [found |-> TRUE, val |-> [avg_yield |-> 0]],
             [found |-> TRUE, val |-> [null |-> "avg_yield"]]}
            \cup {[found |-> TRUE,
                   val |-> [avg_yield |-> a, min_yield |-> lo,
                            max_yield |-> hi]] :
                    a \in {0, 3000}, lo \in {0, 2000}, hi \in {0, 4000}}
    IN  {[at |-> "_predict_yield_ml", version |-> "v3", crop |-> c,
          features |-> MkFeatures({}, {}, {}, t, {}), profile |-> p,
          regressor |-> {}, historical |-> NoRecord] :
            c \in YieldCrops, t \in YieldTemp2Inputs, p \in YieldProfiles}
        \cup {[at |-> "_predict_yield_ml", version |-> v, crop |-> "COTTON",
               features |-> MkFeatures({}, {}, {}, {}, {}),
               profile |-> NoRecord, regressor |-> y, historical |-> h] :
            v \in {"v2", "v1"}, y \in RegressorOutputs, h \in YieldRecords}
        \cup {[at |-> "_predict_yield", version |-> "", crop |-> c,
               features |-> MkFeatures({}, {}, {}, t, {}), profile |-> p,
               regressor |-> {}, historical |-> NoRecord] :
            c \in YieldCrops, t \in YieldTemp2Inputs, p \in YieldProfiles}
        \cup {[at |-> "_predict_with_rules", version |-> "", crop |-> c,
               features |-> MkFeatures({}, {}, {}, t, {}),
               profile |-> NoRecord, regressor |-> {},
               historical |-> NoRecord] :
            c \in YieldCrops, t \in YieldTemp2Inputs}

InitYield ==
    /\ cls = "CropPredictor"
    /\ files = EmptyDir
    /\ hash_order = "asc"
    /\ pc = "new"
    /\ thr = NoThreads
    /\ geo = NoLookups
    /\ enc = IdleEnc
    /\ first = NoFirst
    /\ self = NewObject
    /\ call = NoCall
    /\ failed_before = FALSE
    /\ fn = IdleFn
    /\ cand = IdleCand
    /\ \E i \in YieldInputs, ups \in [1..3 -> BOOLEAN] :
        yld = [at |-> i.at, version |-> i.version, crop |-> i.crop,
               features |-> i.features, profile |-> i.profile,
               regressor |-> i.regressor, historical |-> i.historical,
               ups |-> ups, out |-> [min |-> 0, max |-> 0, expected |-> 0],
               raised |-> FALSE, done |-> FALSE]

ApplyYield ==
    /\ ~yld.done
    /\ yld' = [yld EXCEPT
            !.out = CASE yld.at = "_predict_yield_ml" ->
                            predict_yield_ml(yld.version, yld.crop,
                                             yld.features, yld.profile,
                                             yld.regressor, yld.historical,
                                             yld.ups)
                      [] yld.at = "_predict_yield" ->
                            IF predict_yield_v3_raises(yld.profile)
                            THEN yld.out
                            ELSE predict_yield_v3(yld.crop, yld.features,
                                                  yld.profile, yld.ups)
                      [] yld.at = "_predict_with_rules" ->
                            predict_yield_rules(yld.crop, yld.features,
                                                yld.ups),
            !.raised = (yld.at = "_predict_yield"
                        /\ predict_yield_v3_raises(yld.profile)),
            !.done = TRUE]
    /\ UNCHANGED <<cls, files, hash_order, pc, self, call, failed_before, fn,
                   cand, first, enc, geo, thr>>

SpecYield == InitYield /\ [][ApplyYield]_vars

(***************************************************************************)
(* The encoder on its own: _prepare_features of either class under every   *)
(* model version the class loads, with encoders of several contents, and   *)
(* for a v2 CropPredictor the yield regressor's features as well.          *)
(***************************************************************************)
\* The encoders: encoders_v3.json and encoders.json as the training scripts
\* write them ("default": those of a CropPredictor that loaded nothing), and
\* json files with empty lists, with no table at all and with class names
\* in mixed case.
EncodersIn(tag) ==
    CASE tag = "empty lists" ->
            [state_classes |-> <<>>, district_classes |-> <<>>,
             season_classes |-> <<>>, crop_classes |-> <<>>]
      [] tag = "{}" -> <<>>
      [] tag = "mixed case" ->
            [state_classes |-> <<"Gujarat", "Punjab">>,
             district_classes |-> <<"Ahmedabad", "Amritsar", "Ludhiana">>,
             season_classes |-> <<"Kharif", "Rabi">>,
             crop_classes |-> CoarseClasses]
      [] OTHER -> EncodersOf(tag)

\* The mappings: 5 and 28 degrees Celsius or no avg_temperature; humidities
\* whose spread of 15 is cut at 30 and at 100, or no avg_humidity.  The
\* district, district_profiles[key]: absent, without crops, with crops.
InitFeatures ==
    /\ cls = "CropPredictor"
    /\ files = EmptyDir
    /\ hash_order = "asc"
    /\ pc = "new"
    /\ thr = NoThreads
    /\ geo = NoLookups
    /\ yld = IdleYield
    /\ first = NoFirst
    /\ self = NewObject
    /\ call = NoCall
    /\ failed_before = FALSE
    /\ fn = IdleFn
    /\ cand = IdleCand
    /\ \E c \in Classes,
          e \in {"encoders_v3.json", "encoders.json", "default", "empty lists",
                 "{}", "mixed case"},
          loc \in LocationInputs, season \in SeasonInputs,
          t \in { {10}, {56}, {} }, h \in { {30}, {90}, {} } :
        \E v \in CandVersions(c), f \in {MkFeatures(loc[1], loc[2], season, t, h)} :
        \E d \in (IF c = "CropPredictor" /\ v = "v2"
                  THEN {NoRecord, [found |-> TRUE, val |-> <<>>],
                        [found |-> TRUE,
                         val |-> <<[avg_yield |-> 2], [avg_yield |-> 4]>>],
                        [found |-> TRUE,
                         val |-> <<[avg_yield |-> 1000], [std_yield |-> 0]>>]}
                  ELSE {NoRecord}),
           crop \in (IF c = "CropPredictor" /\ v = "v2"
                     THEN {"COTTON", "QUINOA"} ELSE {""}) :
            enc = [IdleEnc EXCEPT !.cls = c, !.version = v, !.encoders = e,
                                  !.district = d, !.crop = crop,
                                  !.features = f]

ApplyPrepareFeatures ==
    /\ ~enc.done
    /\ \E v \in {prepare_features(enc.cls, enc.version,
                                  EncodersIn(enc.encoders), enc.district,
                                  enc.features)} :
       \E y \in {IF enc.cls = "CropPredictor" /\ enc.version = "v2"
                 THEN yield_features(EncodersIn(enc.encoders), enc.crop,
                                     enc.features)
                 ELSE <<>>} :
            enc' = [enc EXCEPT !.vector = IF Raises(v) THEN <<>> ELSE v,
                               !.yield_vector = IF Raises(v) \/ Raises(y)
                                                THEN <<>> ELSE y,
                               !.raised = Raises(v) \/ Raises(y),
                               !.done = TRUE]
    /\ UNCHANGED <<cls, files, hash_order, pc, self, call, failed_before, fn,
                   cand, first, yld, geo, thr>>

SpecFeatures == InitFeatures /\ [][ApplyPrepareFeatures]_vars

(***************************************************************************)
(* Lookups of coordinates on one object: districts 1, 2, 3, ... of one     *)
(* state are looked up for the first time in turn, and between them        *)
(* district 1 is looked up again any number of times.  The request for     *)
(* district 1 can find coordinates, find nothing or fail, each time it is  *)
(* made; the requests for the other districts find coordinates.            *)
(***************************************************************************)
MaxDistricts == 102

InitCoordinates ==
    /\ cls = "CropPredictor"
    /\ files = EmptyDir
    /\ hash_order = "asc"
    /\ pc = "new"
    /\ thr = NoThreads
    /\ geo = [cache |-> <<>>, next |-> 1, last |-> <<>>]
    /\ enc = IdleEnc
    /\ yld = IdleYield
    /\ first = NoFirst
    /\ self = NewObject
    /\ call = NoCall
    /\ failed_before = FALSE
    /\ fn = IdleFn
    /\ cand = IdleCand

Lookup(district, outcome) ==
    \E r \in {get_coordinates(geo.cache, district, "PUNJAB", outcome)} :
        /\ geo' = [cache |-> r.cache,
                   next |-> IF district = geo.next THEN geo.next + 1
                            ELSE geo.next,
                   last |-> [key |-> <<district, "PUNJAB">>,
                             result |-> r.result, network |-> r.network]]
        /\ UNCHANGED <<cls, files, hash_order, pc, self, call, failed_before,
                       fn, cand, first, yld, enc, thr>>

LookupNew ==
    /\ geo.next <= MaxDistricts
    /\ \E outcome \in (IF geo.next = 1 THEN {"found", "empty", "error"}
                       ELSE {"found"}) :
            Lookup(geo.next, outcome)

LookupAgain ==
    /\ geo.next > 1
    /\ \E outcome \in {"found", "empty", "error"} : Lookup(1, outcome)

NextCoordinates == LookupNew \/ LookupAgain

SpecCoordinates == InitCoordinates /\ [][NextCoordinates]_vars

(***************************************************************************)
(* Two threads call predict on one constructed object, each with its own   *)
(* mapping, the two mappings different; the scheduler switches between     *)
(* them at any of the points above.  thr[t] is thread t's call.            *)
(***************************************************************************)
InitThreads ==
    /\ cls \in Classes
    /\ files \in {EmptyDir, MkFiles(Whole, Whole, Whole, "ok", "ok"),
                  MkFiles(<<2, "missing">>, Whole, Whole, "ok", "ok")}
    /\ hash_order = "asc"
    /\ pc = "new"
    /\ thr = NoThreads
    /\ geo = NoLookups
    /\ enc = IdleEnc
    /\ yld = IdleYield
    /\ first = NoFirst
    /\ self = NewObject
    /\ call = NoCall
    /\ failed_before = FALSE
    /\ fn = IdleFn
    /\ cand = IdleCand

ThreadStart(t) ==
    /\ pc = "ready"
    /\ thr[t].pc = "idle"
    /\ \E features_in \in {MkFeatures({"Punjab"}, {"Ludhiana"}, {"KHARIF"}, {40}, {60}),
                           MkFeatures({"KERALA"}, {"KOCHI"}, {"rabi"}, {90}, {30}),
                           MkFeatures({}, {}, {}, {}, {45})},
          o \in {x \in ModelOutcomes(self) : Len(x[1]) # 2 /\ x[2] # "scale"} :
        /\ \A u \in DOMAIN thr : thr[u].pc # "idle" => thr[u].features_in # features_in
        /\ thr' = [thr EXCEPT ![t] = [@ EXCEPT !.pc = "start",
                                               !.features_in = features_in,
                                               !.probs = o[1], !.fault = o[2]]]
    /\ UNCHANGED <<cls, files, hash_order, pc, self, call, failed_before, fn,
                   cand, first, yld, enc, geo>>

ThreadStep(t) ==
    /\ thr[t].pc \notin {"idle", "done"}
    /\ thr' = [thr EXCEPT ![t] = predict_thread(cls, self, hash_order, thr, t)]
    /\ UNCHANGED <<cls, files, hash_order, pc, self, call, failed_before, fn,
                   cand, first, yld, enc, geo>>

NextThreads ==
    \/ Construct
    \/ \E t \in DOMAIN thr : ThreadStart(t)
    \/ \E t \in DOMAIN thr : ThreadStep(t)

SpecThreads == InitThreads /\ [][NextThreads]_vars

(***************************************************************************)
(* The properties.  A returned suitabilityScore is in tenths of a point:   *)
(* 1000 is a score of 100.                                                 *)
(***************************************************************************)

\* C1: every entry of the list predict returns has a suitabilityScore
\* between 0 and 100, in the model path and in the rule-based path.
C1_ScoreWithin0And100 ==
    pc = "called" =>
        \A i \in 1..Len(call.out) :
            /\ call.out[i].suitabilityScore >= 0
            /\ call.out[i].suitabilityScore <= 1000

\* C1: a CropPredictor call on the model path returns an entry above 100.
C1_ScoreAbove100Returned ==
    /\ pc = "called"
    /\ cls = "CropPredictor"
    /\ call.path = "model"
    /\ \E i \in 1..Len(call.out) :
            /\ call.out[i].seasonMatch
            /\ call.out[i].suitabilityScore > 1000

\* C2: whatever artifact files are present, missing or unreadable at load
\* time, a predict call on the constructed predictor does not raise.
C2_PredictNeverRaises == pc = "called" => ~call.raised

\* C2: a CropPredictorV3 whose load failed raises in predict.
C2_RaisedAfterFailedLoad ==
    /\ pc = "called"
    /\ cls = "CropPredictorV3"
    /\ files["crop_classifier_v3.pkl"] = "ok"
    /\ files["scaler_v3.pkl"] = "missing"
    /\ self.val["season_crop_map"] = "unset"
    /\ call.raised

\* C3: for every input and artifact state the list predict returns is not
\* empty.
C3_NonEmpty == pc = "called" /\ ~call.raised => Len(call.out) > 0

\* C3: a call with a season outside the default table, on a predictor
\* without a model, returns the empty list.
C3_EmptyReturned ==
    /\ pc = "called"
    /\ cls = "CropPredictor"
    /\ self.use_ml_model = FALSE
    /\ call.features["season"] = "MONSOON"
    /\ ~call.raised
    /\ call.out = <<>>

\* C4: the list predict returns has at most 5 entries.
C4_AtMostFive == pc = "called" => Len(call.out) <= 5

\* C4: a model-path call with more than five classes in the affinity set
\* returns exactly five entries.
C4_FiveOfMany ==
    /\ pc = "called"
    /\ call.path = "model"
    /\ Cardinality(call.season_crops) > 5
    /\ Len(call.out) = 5

\* C5: a predict call, on the model path or falling back from it, leaves
\* use_ml_model, model_version and every loaded artifact as they were; and
\* a call whose model path does not raise, on a predictor whose load
\* succeeded, takes the model path whatever calls came before it.
C5_PredictLeavesModelState ==
    [][pc = "ready" /\ pc' = "called" =>
        /\ self' = self
        /\ (load_models(cls, files).use_ml_model = TRUE /\ call'.fault = "none"
                => call'.path = "model")]_vars

\* C5: a call takes the model path after an earlier call fell back.
C5_ModelPathAfterFailure ==
    /\ pc = "called"
    /\ failed_before
    /\ self.use_ml_model = TRUE
    /\ call.fault = "none"
    /\ call.path = "model"

\* C6: CropPredictor selects the first of v3, v2, v1 whose classifier file
\* is present and loads that format only; with no classifier file it is in
\* rule-based mode with model_version None; when a file of the selected
\* format cannot be read it is in rule-based mode too, and holds nothing of
\* an older format.
C6_LoadOrder ==
    pc # "new" /\ cls = "CropPredictor" =>
        LET present(v) == files[MandatoryFiles[v][1]] # "missing"
            sel == IF present("v3") THEN "v3"
                   ELSE IF present("v2") THEN "v2"
                   ELSE IF present("v1") THEN "v1" ELSE "none"
            own(v) == Range(MandatoryFiles[v])
                        \cup (IF v = "v3" THEN OptionalFiles ELSE {})
            readable(v) ==
                /\ \A f \in Range(MandatoryFiles[v]) : files[f] = "ok"
                /\ v = "v3" => \A f \in OptionalFiles : files[f] # "corrupt"
        IN  /\ sel = "none" =>
                /\ self.use_ml_model = FALSE
                /\ self.model_version = "None"
            /\ sel # "none" /\ readable(sel) =>
                /\ self.use_ml_model = TRUE
                /\ self.model_version = sel
                /\ self.val["classifier"] = MandatoryFiles[sel][1]
                /\ \A a \in Attrs : self.val[a] \in own(sel) \cup {"empty", "unset"}
            /\ sel # "none" /\ ~readable(sel) =>
                /\ self.use_ml_model = FALSE
                /\ self.model_version = "None"
                /\ \A a \in Attrs :
                        self.val[a] \in own(sel) \cup {"empty", "unset", "default"}

\* C6: the v3 classifier is present without its scaler, the v2 and v1
\* formats are complete, and the predictor is in rule-based mode.
C6_NewestFailsOlderComplete ==
    /\ pc = "ready"
    /\ cls = "CropPredictor"
    /\ files["crop_classifier_v3.pkl"] = "ok"
    /\ files["scaler_v3.pkl"] = "missing"
    /\ \A f \in Range(MandatoryFiles["v2"]) \cup Range(MandatoryFiles["v1"]) :
            files[f] = "ok"
    /\ self.use_ml_model = FALSE
    /\ self.model_version = "None"

\* C7 (as stated): without a model, every returned recommendation is in the
\* affinity set, has seasonMatch true and has suitabilityScore exactly
\* 50 + 40 * suitability.
C7_ScoreExactly50Plus40Suitability ==
    pc = "called" /\ self.use_ml_model = FALSE /\ ~call.raised =>
        LET temp2 == Get(call.features_in, "avg_temperature", 2 * 25)
        IN  \A i \in 1..Len(call.out) :
                /\ call.out[i].cropName \in call.season_crops
                /\ call.out[i].seasonMatch
                /\ call.out[i].suitabilityScore * TenthOne
                        = 50 * ScoreOne
                          + 40 * (ScoreOne \div SuitOne)
                               * calculate_temp_suitability(call.out[i].cropName,
                                                            temp2)

\* C7 (amended): without a model, every returned recommendation is in the
\* affinity set, has seasonMatch true and has suitabilityScore equal to
\* 50 + 40 * suitability rounded to one decimal, within [50, 90]; for
\* PUNJAB, LUDHIANA, RABI at 20 degrees with no artifacts every returned
\* crop is one of the seven RABI defaults.
C7_RuleBasedRecommendations ==
    pc = "called" /\ self.use_ml_model = FALSE /\ ~call.raised =>
        LET temp2 == Get(call.features_in, "avg_temperature", 2 * 25)
        IN  /\ \A i \in 1..Len(call.out) :
                /\ call.out[i].cropName \in call.season_crops
                /\ call.out[i].seasonMatch
                /\ \E up \in {{}, {call.out[i].suitabilityScore - 1}} :
                      call.out[i].suitabilityScore
                        = RoundTenths(
                            50 * ScoreOne
                            + 40 * (ScoreOne \div SuitOne)
                                 * calculate_temp_suitability(
                                        call.out[i].cropName, temp2), up)
                /\ call.out[i].suitabilityScore >= 500
                /\ call.out[i].suitabilityScore <= 900
            /\ (/\ \A f \in FileNames : files[f] = "missing"
                /\ call.features["state"] = "PUNJAB"
                /\ call.features["district"] = "LUDHIANA"
                /\ call.features["season"] = "RABI"
                /\ temp2 = 2 * 20
                /\ "avg_temperature" \in DOMAIN call.features_in)
               => \A i \in 1..Len(call.out) :
                     call.out[i].cropName \in
                        {"CEREALS_WHEAT", "CEREALS_BARLEY", "PULSES", "OILSEEDS",
                         "VEGETABLES", "SPICES", "TOBACCO"}

\* C7: the PUNJAB, LUDHIANA, RABI, 20 degrees call with no artifacts returns
\* five recommendations, CEREALS_WHEAT among them at 87.3.
C7_RabiScenarioReturned ==
    /\ pc = "called"
    /\ \A f \in FileNames : files[f] = "missing"
    /\ self.use_ml_model = FALSE
    /\ call.features["state"] = "PUNJAB"
    /\ call.features["district"] = "LUDHIANA"
    /\ call.features["season"] = "RABI"
    /\ "avg_temperature" \in DOMAIN call.features_in
    /\ call.features_in["avg_temperature"] = 2 * 20
    /\ Len(call.out) = 5
    /\ \E i \in 1..Len(call.out) :
            /\ call.out[i].cropName = "CEREALS_WHEAT"
            /\ call.out[i].suitabilityScore = 873

\* C8 (as stated): with no artifacts, season KHARIF and 45 degrees, every
\* KHARIF default has temperature suitability exactly 0.2 and every
\* returned entry has suitabilityScore 58.
C8_AllKharifAtFloor ==
    (/\ pc = "called"
     /\ \A f \in FileNames : files[f] = "missing"
     /\ call.features["season"] = "KHARIF"
     /\ "avg_temperature" \in DOMAIN call.features_in
     /\ call.features_in["avg_temperature"] = 2 * 45)
    => /\ \A c \in Range(DEFAULT_SEASON_CROPS["KHARIF"]) :
            calculate_temp_suitability(c, 2 * 45) * 10 = 2 * SuitOne
       /\ \A i \in 1..Len(call.out) : call.out[i].suitabilityScore = 580

\* C8 (amended): with no artifacts, season KHARIF and 45 degrees, the
\* KHARIF defaults have temperature suitability 0.55 (CEREALS_MILLETS),
\* 0.4 (JUTE), 0.3 (CEREALS_RICE, OILSEEDS, COTTON, SUGARCANE, FRUITS) and
\* 0.2 (CEREALS_MAIZE, PULSES, VEGETABLES); the five returned entries are
\* CEREALS_MILLETS at 72, JUTE at 66 and three of the 0.3 crops at 62.
C8_KharifAt45 ==
    (/\ pc = "called"
     /\ \A f \in FileNames : files[f] = "missing"
     /\ call.features["season"] = "KHARIF"
     /\ "avg_temperature" \in DOMAIN call.features_in
     /\ call.features_in["avg_temperature"] = 2 * 45)
    => /\ calculate_temp_suitability("CEREALS_MILLETS", 2 * 45) * 100 = 55 * SuitOne
       /\ calculate_temp_suitability("JUTE", 2 * 45) * 10 = 4 * SuitOne
       /\ \A c \in {"CEREALS_RICE", "OILSEEDS", "COTTON", "SUGARCANE", "FRUITS"} :
            calculate_temp_suitability(c, 2 * 45) * 10 = 3 * SuitOne
       /\ \A c \in {"CEREALS_MAIZE", "PULSES", "VEGETABLES"} :
            calculate_temp_suitability(c, 2 * 45) * 10 = 2 * SuitOne
       /\ ~call.raised
       /\ Len(call.out) = 5
       /\ call.out[1].cropName = "CEREALS_MILLETS"
       /\ call.out[2].cropName = "JUTE"
       /\ \A i \in 3..5 :
            call.out[i].cropName \in
                {"CEREALS_RICE", "OILSEEDS", "COTTON", "SUGARCANE", "FRUITS"}
       /\ <<call.out[1].suitabilityScore, call.out[2].suitabilityScore,
            call.out[3].suitabilityScore, call.out[4].suitabilityScore,
            call.out[5].suitabilityScore>> = <<720, 660, 620, 620, 620>>

\* C8: the KHARIF call at 45 degrees with no artifacts returns
\* CEREALS_MILLETS first, at 72.
C8_KharifAt45Returned ==
    /\ pc = "called"
    /\ \A f \in FileNames : files[f] = "missing"
    /\ call.features["season"] = "KHARIF"
    /\ "avg_temperature" \in DOMAIN call.features_in
    /\ call.features_in["avg_temperature"] = 2 * 45
    /\ Len(call.out) = 5
    /\ call.out[1].cropName = "CEREALS_MILLETS"
    /\ call.out[1].suitabilityScore = 720

\* C9: _calculate_temp_suitability is the reference piecewise function:
\* 1 - 0.2 * |t - mid| / half-width inside [min, max] (at least 0.8 there,
\* 1.0 at the midpoint, 0.8 at min and at max), max(0.2, 0.8 - 0.05 * the
\* distance to the range) outside it (0.2 from 50 degrees outside on), the
\* constant 0.7 for a name that is not in the table; always in [0.2, 1.0].
C9_TempSuitabilityIsReference ==
    fn.done =>
        /\ 10 * fn.out >= 2 * SuitOne
        /\ fn.out <= SuitOne
        /\ IF fn.crop \notin DOMAIN CROP_TEMP_RANGES
           THEN 10 * fn.out = 7 * SuitOne
           ELSE LET mn2 == 2 * CROP_TEMP_RANGES[fn.crop][1]
                    mx2 == 2 * CROP_TEMP_RANGES[fn.crop][2]
                    t2 == fn.t2
                IN  /\ (mn2 <= t2 /\ t2 <= mx2) =>
                        /\ 5 * (mx2 - mn2) * fn.out
                                = SuitOne * (5 * (mx2 - mn2) - Abs(2 * t2 - mn2 - mx2))
                        /\ 10 * fn.out >= 8 * SuitOne
                    /\ 2 * t2 = mn2 + mx2 => fn.out = SuitOne
                    /\ t2 \in {mn2, mx2} => 10 * fn.out = 8 * SuitOne
                    /\ t2 < mn2 =>
                        40 * fn.out
                            = Max2(8 * SuitOne, 32 * SuitOne - (mn2 - t2) * SuitOne)
                    /\ t2 > mx2 =>
                        40 * fn.out
                            = Max2(8 * SuitOne, 32 * SuitOne - (t2 - mx2) * SuitOne)
                    /\ (t2 <= mn2 - 100 \/ t2 >= mx2 + 100) =>
                        10 * fn.out = 2 * SuitOne

\* C9: wheat at 40 degrees below zero is at the floor.
C9_FloorReached ==
    /\ fn.done
    /\ fn.crop = "CEREALS_WHEAT"
    /\ fn.t2 = 0 - 80
    /\ 10 * fn.out = 2 * SuitOne

\* C10: the final model-path score of a candidate scored as a member of the
\* affinity set is strictly greater than its score as a non-member, all
\* other inputs equal, in both classes, with and without the temperature
\* penalty.
C10_SeasonMatchScoresHigher == cand.done => cand.in_set > cand.out_of_set

\* C10: a CropPredictorV3 candidate under the temperature penalty, scored
\* both ways.
C10_PenalisedCandidateScored ==
    /\ cand.done
    /\ cand.cls = "CropPredictorV3"
    /\ cand.crop = "CEREALS_MAIZE"
    /\ cand.temp2 = {2 * 45}
    /\ cand.p = 20
    /\ cand.in_set > cand.out_of_set
    /\ cand.out_of_set > 0

\* C12: in the list predict returns, every entry with seasonMatch true
\* precedes every entry with seasonMatch false, and within each of the two
\* groups the suitabilityScore does not increase.
C12_SeasonMatchFirstThenScore ==
    pc = "called" /\ ~call.raised =>
        \A i, j \in 1..Len(call.out) :
            i < j =>
                /\ call.out[j].seasonMatch => call.out[i].seasonMatch
                /\ call.out[i].seasonMatch = call.out[j].seasonMatch
                    => call.out[i].suitabilityScore
                            >= call.out[j].suitabilityScore

\* C12: a model-path call returns an entry outside the affinity set ahead of
\* an entry inside it (the last sort of predict is by suitabilityScore alone).
C12_OutOfSeasonAheadReturned ==
    /\ pc = "called"
    /\ call.path = "model"
    /\ ~call.raised
    /\ Len(call.out) >= 2
    /\ ~call.out[1].seasonMatch
    /\ call.out[2].seasonMatch
    /\ call.out[1].suitabilityScore > call.out[2].suitabilityScore

\* C13: the list predict returns never holds two recommendations with the
\* same cropName.
C13_NoDuplicateCrop ==
    pc = "called" /\ ~call.raised =>
        \A i, j \in 1..Len(call.out) :
            call.out[i].cropName = call.out[j].cropName => i = j

\* C13: a model-path call whose model pass kept too few entries was
\* supplemented from the rule-based list, and a crop the model pass kept is
\* also in the rule-based list.
C13_SupplementedOverlapReturned ==
    /\ pc = "called"
    /\ call.path = "model"
    /\ ~call.raised
    /\ LET temp2 == Get(call.features_in, "avg_temperature", DefaultTemp2Predict)
           kept == ModelKept(cls, self, call.features, call.probs,
                             call.season_crops, temp2)
           rules == RuleItems(hash_order, call.features, call.season_crops)
       IN  /\ Len(kept) < (IF cls = "CropPredictor" THEN SupplementBelowMl
                           ELSE SupplementBelowV3)
           /\ Len(call.out) > Len(kept)
           /\ \E i \in 1..Len(kept), j \in 1..Len(rules) :
                kept[i].crop_name = rules[j].crop_name

\* C14: a repeat of a call, with the same mapping, the same classifier
\* output and unchanged artifacts, returns the list the call returned.
C14_RepeatIdentical ==
    pc = "again" =>
        /\ call.raised = first.call.raised
        /\ call.out = first.call.out

\* C14: the repeat was served after a restart on the unchanged directory and
\* returns other crops than the call did, at equal scores.
C14_RepeatAfterRestartDiffers ==
    /\ pc = "again"
    /\ first.restarted
    /\ ~call.raised
    /\ ~first.call.raised
    /\ Len(call.out) = TopN
    /\ Len(first.call.out) = TopN
    /\ ScoreKeys(call.out) = ScoreKeys(first.call.out)
    /\ CropNames(call.out) # CropNames(first.call.out)

\* C14: served by the same process, the repeat returns the same list.
C14_RepeatInSameProcessIdentical ==
    pc = "again" /\ ~first.restarted =>
        /\ call.raised = first.call.raised
        /\ call.out = first.call.out

\* C15: after a predict call the caller's mapping has the keys it had before
\* the call, each with the value it had.
C15_FeaturesUnmodified ==
    pc = "called" => call.features = call.features_in

\* C15: a call returned with the caller's state string replaced by its upper
\* case and a season key added to the mapping.
C15_MappingRewritten ==
    /\ pc = "called"
    /\ ~call.raised
    /\ "state" \in DOMAIN call.features_in
    /\ call.features_in["state"] = "Punjab"
    /\ call.features["state"] = "PUNJAB"
    /\ "season" \notin DOMAIN call.features_in
    /\ call.features["season"] = "KHARIF"

\* C20: the affinity set of a call is resolved in this order: the crop set of
\* the exact key STATE_DISTRICT of the season's map; otherwise that of the
\* first key of the season's map that starts with the state; otherwise the
\* season's default set, which is also the result when the season has no
\* map entry (or there is no map).
C20_ResolutionOrder ==
    pc = "called" =>
        LET smap == SeasonCropMapOf(self.val["season_crop_map"])
            state == call.features["state"]
            season == call.features["season"]
            key == state \o "_" \o call.features["district"]
            entries == IF season \in DOMAIN smap THEN smap[season] ELSE <<>>
            exact == {i \in 1..Len(entries) : entries[i][1] = key}
            pref == {i \in 1..Len(entries) : StartsWith(entries[i][1], state)}
        IN  /\ call.path # "none"
            /\ call.season_crops =
                IF exact # {}
                THEN Range(entries[CHOOSE i \in exact : TRUE][2])
                ELSE IF pref # {}
                THEN Range(entries[CHOOSE i \in pref :
                                        \A j \in pref : i <= j][2])
                ELSE IF season \in DOMAIN DEFAULT_SEASON_CROPS
                THEN Range(DEFAULT_SEASON_CROPS[season])
                ELSE {}

\* C20: a CropPredictorV3 whose load left season_crop_map unassigned raised
\* in _get_crops_for_season, for a season that has a default set.
C20_RaisedInsteadOfDefault ==
    /\ pc = "called"
    /\ cls = "CropPredictorV3"
    /\ self.val["season_crop_map"] = "unset"
    /\ call.raised
    /\ call.path = "none"
    /\ call.features["season"] \in DOMAIN DEFAULT_SEASON_CROPS

\* C20: wherever season_crop_map was assigned, the affinity set is resolved
\* in the stated order.
C20_ResolutionOrderWhenMapAssigned ==
    self.val["season_crop_map"] # "unset" \/ cls = "CropPredictor"
        => C20_ResolutionOrder

\* C20: the second step decided: no exact key, and the first key starting
\* with the state is not the only one.
C20_PrefixStepDecided ==
    /\ pc = "called"
    /\ call.features["state"] = "PUNJAB"
    /\ call.features["district"] = "PATIALA"
    /\ call.features["season"] = "KHARIF"
    /\ call.season_crops = {"CEREALS_RICE", "CEREALS_MAIZE", "COTTON"}

\* C11: every yield range that an estimator attaches to a recommendation
\* has expected >= 100, min >= 50 and max >= expected, whatever the crop,
\* the temperature, the model version, the crop profile and the district
\* record.
C11_YieldRangeBounds ==
    (yld.done /\ ~yld.raised) => /\ yld.out.expected >= 100
                /\ yld.out.min >= 50
                /\ yld.out.max >= yld.out.expected

\* a crop profile with a small mean gave an expected yield below 100
C11_ProfileExpectedBelow100 ==
    /\ yld.done
    /\ yld.at \in {"_predict_yield_ml", "_predict_yield"}
    /\ yld.profile.found
    /\ "yield_mean" \in DOMAIN yld.profile.val
    /\ yld.out.expected < 100

\* C11 away from crop profiles: on the default-yield path, the regressor
\* path and the except path the three bounds hold.
C11_YieldRangeBoundsWithoutProfile ==
    (yld.done /\ ~yld.raised /\ ~(yld.at \in {"_predict_yield_ml", "_predict_yield"}
                   /\ yld.version \in {"v3", ""} /\ yld.profile.found))
    => /\ yld.out.expected >= 100
       /\ yld.out.min >= 50
       /\ yld.out.max >= yld.out.expected

\* the regressor path clamped a prediction below 100 kg
C11_RegressorClamped ==
    /\ yld.done
    /\ yld.version \in {"v2", "v1"}
    /\ yld.regressor \in { {-500}, {0}, {60} }
    /\ yld.out.expected = 100

C17_EncodeDecodeRoundTrip ==
    (enc.done /\ ~enc.raised)
    => LET encoders == EncodersIn(enc.encoders)
           field == [n \in {"state", "district", "season"} |->
                        Upper(Get(enc.features, n,
                                  IF n = "season" THEN "KHARIF" ELSE ""))]
       IN  \A n \in {"state", "district", "season"} :
            LET list == Get(encoders, n \o "_classes", <<>>)
                i == CHOOSE k \in 1..Len(enc.vector) :
                        enc.vector[k].q = n \o "_encoded"
                code == enc.vector[i].val
            IN  /\ field[n] \in Range(list)
                    => /\ code + 1 \in 1..Len(list)
                       /\ list[code + 1] = field[n]
                /\ \A x, y \in Range(list) :
                    x /= y => encode(list, x) /= encode(list, y)

\* a known state, district and season, none of them the first of its list,
\* were encoded
C17_KnownCategoriesEncoded ==
    /\ enc.done
    /\ enc.encoders = "encoders_v3.json"
    /\ "state" \in DOMAIN enc.features /\ enc.features["state"] = "Punjab"
    /\ "season" \in DOMAIN enc.features /\ enc.features["season"] = "rabi"
    /\ \E i, j, k \in 1..Len(enc.vector) :
        /\ enc.vector[i] = Entry("state_encoded", 1)
        /\ enc.vector[j] = Entry("district_encoded", 2)
        /\ enc.vector[k] = Entry("season_encoded", 2)

\* C18: a state, district, season or crop that is not in its lookup table
\* (the list of the encoders; for the season of a CropPredictor whose
\* encoders have no season_classes, the built-in season table) is encoded
\* as 0 and the encoder does not raise, also when the list is empty or the
\* encoders have no season_classes.
C18_UnknownCategoryIsZero ==
    enc.done
    => /\ ~enc.raised
       /\ LET encoders == EncodersIn(enc.encoders)
              state == Upper(Get(enc.features, "state", ""))
              district == Upper(Get(enc.features, "district", ""))
              season == Upper(Get(enc.features, "season", "KHARIF"))
              season_known ==
                IF "season_classes" \in DOMAIN encoders
                THEN Range(encoders["season_classes"])
                ELSE IF enc.cls = "CropPredictor" THEN DOMAIN season_mapping
                ELSE {}
              Zero(vector, q) ==
                \A i \in 1..Len(vector) : vector[i].q = q => vector[i].val = 0
          IN  /\ state \notin Range(Get(encoders, "state_classes", <<>>))
                    => /\ Zero(enc.vector, "state_encoded")
                       /\ Zero(enc.yield_vector, "state_encoded")
              /\ district \notin Range(Get(encoders, "district_classes", <<>>))
                    => /\ Zero(enc.vector, "district_encoded")
                       /\ Zero(enc.yield_vector, "district_encoded")
              /\ season \notin season_known
                    => Zero(enc.vector, "season_encoded")
              /\ (season \notin season_known
                  \/ "season_classes" \notin DOMAIN encoders)
                    => Zero(enc.yield_vector, "season_encoded")
              /\ enc.crop \notin Range(Get(encoders, "crop_classes", <<>>))
                    => Zero(enc.yield_vector, "crop_encoded")

\* a state, a season and a crop unknown to encoders without season_classes
\* were encoded for a v2 CropPredictor
C18_UnknownEncoded ==
    /\ enc.done
    /\ enc.cls = "CropPredictor" /\ enc.version = "v2"
    /\ enc.encoders = "encoders.json"
    /\ "state" \in DOMAIN enc.features /\ enc.features["state"] = "KERALA"
    /\ "season" \in DOMAIN enc.features /\ enc.features["season"] = "MONSOON"
    /\ enc.crop = "QUINOA"
    /\ Len(enc.vector) = 21 /\ enc.vector[1] = Entry("state_encoded", 0)
    /\ Len(enc.yield_vector) = 20
    /\ enc.yield_vector[4] = Entry("crop_encoded", 0)

\* the same for a CropPredictorV3 whose encoders hold no table at all
C18_NoTableEncoded ==
    /\ enc.done
    /\ enc.cls = "CropPredictorV3"
    /\ enc.encoders = "{}"
    /\ "state" \in DOMAIN enc.features /\ enc.features["state"] = "Punjab"
    /\ Len(enc.vector) = 16 /\ enc.vector[1] = Entry("state_encoded", 0)

\* C19: a call without avg_temperature reads 28.0 wherever it reads the
\* temperature: it returns what the same call with avg_temperature = 28.0
\* returns (the environmental bonus and the temperature suitability make
\* the scores), it encodes the vector of that call, and it attaches the
\* yield ranges of that call to the crops it returns.
C19_DefaultTemperature28 ==
    (pc = "called" /\ ~call.raised
     /\ "avg_temperature" \notin DOMAIN call.features_in)
    => LET f28 == [k \in DOMAIN call.features_in \cup {"avg_temperature"} |->
                      IF k = "avg_temperature" THEN 2 * 28
                      ELSE call.features_in[k]]
           ups == <<FALSE, FALSE, FALSE>>
           yield(features, crop) ==
              IF cls = "CropPredictorV3"
              THEN predict_yield_v3(crop, features, NoRecord, ups)
              ELSE IF call.path /= "model"
              THEN predict_yield_rules(crop, features, ups)
              ELSE predict_yield_ml(self.model_version, crop, features,
                                    NoRecord, {2500}, NoRecord, ups)
       IN  /\ \E r0 \in {predict(cls, self, hash_order, f28, call.probs,
                                 call.fault, {})} :
              \E up \in SUBSET Returnable(r0) :
                call.out = (IF up = {} THEN r0
                            ELSE predict(cls, self, hash_order, f28,
                                         call.probs, call.fault, up)).out
           /\ call.path = "model"
                => prepare_features(cls, self.model_version,
                                    EncodersOf(self.val["encoders"]),
                                    NoRecord, call.features_in)
                   = prepare_features(cls, self.model_version,
                                      EncodersOf(self.val["encoders"]),
                                      NoRecord, f28)
           /\ \A i \in 1..Len(call.out) :
                yield(call.features_in, call.out[i].cropName)
                = yield(f28, call.out[i].cropName)

\* a rule-based call without avg_temperature scored oilseeds at 25 degrees:
\* 87.3, where 28 degrees give 89.5
C19_OilseedsScoredAt25 ==
    /\ pc = "called"
    /\ self.use_ml_model = FALSE
    /\ "avg_temperature" \notin DOMAIN call.features_in
    /\ call.features["season"] = "RABI"
    /\ RoundTenths(RuleScore("OILSEEDS", 2 * 28), {}) = 895
    /\ RoundTenths(RuleScore("OILSEEDS", 2 * 25), {}) = 873
    /\ call.out[1] = [cropName |-> "OILSEEDS", suitabilityScore |-> 873,
                      seasonMatch |-> TRUE]

\* C19 for the vector alone: the encoder does read 28.0.
C19_VectorDefault28 ==
    (enc.done /\ ~enc.raised /\ "avg_temperature" \notin DOMAIN enc.features)
    => \E i \in 1..Len(enc.vector) :
            enc.vector[i] = Entry("temperature", 2 * 28)

\* C21: when a step of the yield estimation raises (the regressor fails, the
\* crop's profile or the district's record is malformed), the estimator
\* returns min 1000, max 3000, expected 2000 and the exception stays inside
\* the estimator.
C21_YieldDefaultOnException ==
    (/\ yld.done
     /\ \/ yld.version \in {"v2", "v1"}
            /\ (yld.regressor = {} \/ HasNull(yld.historical))
        \/ yld.version \in {"v3", ""} /\ HasNull(yld.profile))
    => /\ ~yld.raised
       /\ yld.out = [min |-> 1000, max |-> 3000, expected |-> 2000]

\* CropPredictorV3._predict_yield raised on a malformed profile
C21_V3EstimatorRaised ==
    /\ yld.done
    /\ yld.at = "_predict_yield"
    /\ HasNull(yld.profile)
    /\ yld.raised

\* C21 for CropPredictor._predict_yield_ml alone: every exception gives the
\* default range.
C21_MlEstimatorDefaults ==
    (/\ yld.done
     /\ yld.at = "_predict_yield_ml"
     /\ \/ yld.version \in {"v2", "v1"}
            /\ (yld.regressor = {} \/ HasNull(yld.historical))
        \/ yld.version = "v3" /\ HasNull(yld.profile))
    => /\ ~yld.raised
       /\ yld.out = [min |-> 1000, max |-> 3000, expected |-> 2000]

\* the regressor raised and the default range came back
C21_RegressorFailureDefaulted ==
    /\ yld.done
    /\ yld.at = "_predict_yield_ml"
    /\ yld.regressor = {}
    /\ yld.version = "v2"
    /\ yld.out = [min |-> 1000, max |-> 3000, expected |-> 2000]

\* C29: every yield range attached to a recommendation has
\* min <= expected <= max, on the profile path, the regressor path and the
\* default-yield path.
C29_MinExpectedMax ==
    (yld.done /\ ~yld.raised)
    => /\ yld.out.min <= yld.out.expected
       /\ yld.out.expected <= yld.out.max

\* the regressor path returned a minimum above the expected yield
C29_BlendMinAboveExpected ==
    /\ yld.done
    /\ yld.at = "_predict_yield_ml"
    /\ yld.version = "v2"
    /\ yld.regressor = {2500}
    /\ yld.historical.found /\ "avg_yield" \in DOMAIN yld.historical.val
    /\ yld.out.min > yld.out.expected

\* C29 on the default-yield path, and on the regressor path without a
\* district record: there the order holds.
C29_OrderedWithoutRecords ==
    (/\ yld.done /\ ~yld.raised
     /\ ~yld.profile.found
     /\ ~yld.historical.found)
    => /\ yld.out.min <= yld.out.expected
       /\ yld.out.expected <= yld.out.max

\* the upper half of C29 holds on every path
C29_ExpectedAtMostMax ==
    (yld.done /\ ~yld.raised) => yld.out.expected <= yld.out.max

(***************************************************************************)
(* C23: the probability contribution that is added to the constant 30 is,  *)
(* for a v2 or v3 model, 65 + 50(p - 0.3) from p = 0.3, 50 + 100(p - 0.15) *)
(* from 0.15, 30 + 200(p - 0.05) from 0.05 and 600p below, and for a v1    *)
(* model min(50, 500p), in every predictor that scores the model.          *)
(***************************************************************************)
C23_ProbabilityCurve ==
    cand.done =>
        cand.prob_score =
            IF cand.version \in {"v2", "v3"}
            THEN IF cand.p >= 30
                 THEN 65 * ScoreOne + (cand.p - 30) * (ScoreOne \div 2)
                 ELSE IF cand.p >= 15
                 THEN 50 * ScoreOne + (cand.p - 15) * ScoreOne
                 ELSE IF cand.p >= 5
                 THEN 30 * ScoreOne + (cand.p - 5) * 2 * ScoreOne
                 ELSE cand.p * 6 * ScoreOne
            ELSE Min2(50 * ScoreOne, cand.p * 5 * ScoreOne)

\* CropPredictorV3 scored a v3 model's probability 0.3 with 50 points, where
\* the coarse curve has 65.
C23_V3ScoredOffCurve ==
    /\ cand.done
    /\ cand.cls = "CropPredictorV3"
    /\ cand.version = "v3"
    /\ cand.p = 30
    /\ cand.prob_score = 50 * ScoreOne

\* C23, CropPredictor alone: the stated curves are the ones it applies.
C23_CropPredictorCurve == cand.cls = "CropPredictor" => C23_ProbabilityCurve

\* C23, shape of the curve of either class: from one hundredth of
\* probability to the next the contribution never falls and never rises by
\* more than the steepest slope allows (6 points), so no piece starts above
\* or below the end of the piece before it.
C23_CurveMonotoneWithoutJumps ==
    cand.done /\ cand.p < ProbOne =>
        \E next \in {IF cand.cls = "CropPredictor"
                     THEN ProbScoreMl(cand.version, cand.p + 1)
                     ELSE ProbScoreV3(cand.p + 1)} :
            /\ cand.prob_score <= next
            /\ next - cand.prob_score <= 6 * ScoreOne

(***************************************************************************)
(* C27: in the model pass a candidate that is in the affinity set has a    *)
(* final score of at least 30, whatever its probability, the temperature   *)
(* and the humidity, in both classes.                                      *)
(***************************************************************************)
C27_InSeasonAtLeast30 == cand.done => cand.in_set >= 30 * ScoreOne

\* A CropPredictorV3 candidate with probability 0, humidity 30 and 60
\* degrees (suitability 0.2, penalty applied): 30.03 in the set, below 30
\* outside it.
C27_FloorCaseScored ==
    /\ cand.done
    /\ cand.cls = "CropPredictorV3"
    /\ cand.p = 0
    /\ cand.temp2 = {120}
    /\ cand.humidity = {30}
    /\ calculate_temp_suitability(cand.crop, 120) = SuitFloor
    /\ cand.in_set >= 30 * ScoreOne
    /\ cand.in_set < 31 * ScoreOne
    /\ cand.out_of_set < 30 * ScoreOne

(***************************************************************************)
(* C24: a CropPredictor call whose model path raised returns the list the  *)
(* same call returns when use_ml_model is False; nothing the model pass    *)
(* built is in it.                                                         *)
(***************************************************************************)
C24_FallbackEqualsRuleBased ==
    pc = "called" /\ cls = "CropPredictor" /\ call.path = "fallback" =>
        /\ ~call.raised
        /\ call.out = predict(cls, [self EXCEPT !.use_ml_model = FALSE],
                              hash_order, call.features_in, <<>>, "none",
                              call.up).out

\* The model path raised while the recommendations were being built, on an
\* input for which the model pass alone returns another list.
C24_RaisedWhileBuilding ==
    /\ pc = "called"
    /\ cls = "CropPredictor"
    /\ call.path = "fallback"
    /\ call.fault = "build"
    /\ Len(call.out) = TopN
    /\ call.out # predict(cls, self, hash_order, call.features_in, call.probs,
                          "none", call.up).out

(***************************************************************************)
(* C26: a CropPredictor call whose affinity set has at least 5 categories  *)
(* returns exactly 5 recommendations, without a model, on the model path   *)
(* and when the model path raised.                                         *)
(***************************************************************************)
C26_ExactlyFive ==
    pc = "called" /\ cls = "CropPredictor" =>
        /\ ~call.raised
        /\ Cardinality(call.season_crops) >= TopN => Len(call.out) = TopN
        /\ Len(call.out) < TopN => Cardinality(call.season_crops) < TopN

\* The model pass kept fewer than 5 candidates of an affinity set of 5 or
\* more, and the call returned 5.
C26_FiveAfterSupplement ==
    /\ pc = "called"
    /\ cls = "CropPredictor"
    /\ call.path = "model"
    /\ Cardinality(call.season_crops) >= TopN
    /\ Len(ModelKept(cls, self, call.features, call.probs, call.season_crops,
                     Get(call.features_in, "avg_temperature",
                         DefaultTemp2Predict))) < SupplementBelowMl
    /\ Len(call.out) = TopN

C26_FiveWithoutModel ==
    /\ pc = "called"
    /\ cls = "CropPredictor"
    /\ call.path = "rules"
    /\ Cardinality(call.season_crops) > TopN
    /\ Len(call.out) = TopN

C26_FiveAfterFailure ==
    /\ pc = "called"
    /\ cls = "CropPredictor"
    /\ call.path = "fallback"
    /\ Cardinality(call.season_crops) > TopN
    /\ Len(call.out) = TopN

C26_ShortList ==
    /\ pc = "called"
    /\ cls = "CropPredictor"
    /\ Cardinality(call.season_crops) \in 1..(TopN - 1)
    /\ Len(call.out) = Cardinality(call.season_crops)

(***************************************************************************)
(* C25: when the model pass kept fewer candidates than the supplement      *)
(* threshold of the class (5 in CropPredictor, 3 in CropPredictorV3),      *)
(* every candidate it kept is in the returned list: the rule-based         *)
(* supplements never displace one.                                         *)
(***************************************************************************)
C25_ModelDerivedKept ==
    pc = "called" /\ call.path = "model" /\ ~call.raised =>
        \E kept \in {ModelKept(cls, self, call.features, call.probs,
                               call.season_crops,
                               Get(call.features_in, "avg_temperature",
                                   DefaultTemp2Predict))} :
            Len(kept) < (IF cls = "CropPredictor" THEN SupplementBelowMl
                         ELSE SupplementBelowV3) =>
                \A i \in 1..Len(kept) :
                    kept[i].crop_name \in CropNames(call.out)

\* A CropPredictorV3 call whose model pass kept one or two candidates
\* returned five recommendations of the affinity set, and a kept candidate
\* is not among them.
C25_ModelDerivedDisplaced ==
    /\ pc = "called"
    /\ cls = "CropPredictorV3"
    /\ call.path = "model"
    /\ ~call.raised
    /\ Len(call.out) = TopN
    /\ \E kept \in {ModelKept(cls, self, call.features, call.probs,
                              call.season_crops,
                              Get(call.features_in, "avg_temperature",
                                  DefaultTemp2Predict))} :
        /\ Len(kept) \in 1..(SupplementBelowV3 - 1)
        /\ \E i \in 1..Len(kept) : kept[i].crop_name \notin CropNames(call.out)

\* C25, CropPredictor alone.
C25_ModelDerivedKeptMl == cls = "CropPredictor" => C25_ModelDerivedKept

(***************************************************************************)
(* C28: a crop set that _get_crops_for_season takes from the map through   *)
(* the state-level step comes from a key of the requested state (the       *)
(* state, "_", a district), for every state string, the empty one          *)
(* included: without an exact key the affinity set of a call is the        *)
(* season's default set or the crops of such a key.                        *)
(***************************************************************************)
C28_StateFallbackWithinState ==
    pc = "called" /\ ~call.raised /\ HasSeasonMap(self) =>
        LET smap == SeasonCropMapOf(self.val["season_crop_map"])
            state == call.features["state"]
            season == call.features["season"]
        IN  season \in DOMAIN smap
            /\ ExactMatch(smap[season], state \o "_" \o call.features["district"]) = 0
            => \/ call.season_crops = DefaultCrops(season)
               \/ \E i \in 1..Len(smap[season]) :
                    /\ StartsWith(smap[season][i][1], state \o "_")
                    /\ call.season_crops = Range(smap[season][i][2])

\* A call without a state (the empty default) was given the crops of
\* PUNJAB_AMRITSAR, the first key of the KHARIF map.
C28_EmptyStateGotPunjab ==
    /\ pc = "called"
    /\ ~call.raised
    /\ HasSeasonMap(self)
    /\ call.features["state"] = ""
    /\ call.features["season"] = "KHARIF"
    /\ call.season_crops = {"CEREALS_RICE", "CEREALS_MAIZE", "COTTON"}

\* C28 for the calls that name a state which is followed by "_" in every
\* key it is a prefix of.
C28_NamedStateWithinState ==
    pc = "called" /\ call.features["state"] # "" => C28_StateFallbackWithinState

(***************************************************************************)
(* C30: get_coordinates keeps at most 100 results, one per (district,      *)
(* state); it stores the result of every lookup, the default centroid of a *)
(* failed or empty one like any other; and a lookup of a key that is in    *)
(* the cache returns the stored value without a request.                   *)
(***************************************************************************)
C30_Memoized ==
    [][geo' # geo =>
        LET key == geo'.last.key
            before == {i \in 1..Len(geo.cache) : geo.cache[i].key = key}
        IN  /\ Len(geo'.cache) <= maxsize
            /\ Len(geo'.cache) > 0
            /\ geo'.cache[Len(geo'.cache)] =
                    [key |-> key, value |-> geo'.last.result]
            /\ \A i \in before :
                    /\ ~geo'.last.network
                    /\ geo'.last.result = geo.cache[i].value
            /\ before = {} => geo'.last.network
            /\ \A i, j \in 1..Len(geo'.cache) :
                    geo'.cache[i].key = geo'.cache[j].key => i = j]_vars

\* The cache is full, district 1's request failed when it was made, and a
\* later lookup of district 1 got the centroid from the cache.
C30_CentroidServedFromFullCache ==
    /\ Len(geo.cache) = maxsize
    /\ geo.next > maxsize + 1
    /\ geo.last.key = <<1, "PUNJAB">>
    /\ ~geo.last.network
    /\ geo.last.result = <<205937, 789629>>

\* District 1 was evicted by 100 other districts and looked up again: the
\* request was made again.
C30_EvictedKeyRequestedAgain ==
    /\ geo.next > maxsize + 1
    /\ geo.last.key = <<1, "PUNJAB">>
    /\ geo.last.network
    /\ geo.last.result # <<205937, 789629>>
    /\ geo.cache[1].key = <<3, "PUNJAB">>

(***************************************************************************)
(* C22: however two predict calls with different mappings are interleaved  *)
(* on one object, each call ends as it ends when it runs alone: the same   *)
(* list (or the same exception), and its mapping rewritten the same way.   *)
(***************************************************************************)
C22_InterleavedAsAlone ==
    \A t \in DOMAIN thr :
        thr[t].pc = "done" =>
            \E r \in {predict(cls, self, hash_order, thr[t].features_in,
                              thr[t].probs, thr[t].fault, {})} :
                /\ thr[t].raised = r.raised
                /\ thr[t].out = r.out
                /\ ~r.raised => thr[t].features = r.features

\* Thread 1's call returned five model-path recommendations while thread
\* 2's call, started on another mapping, is suspended with its own affinity
\* set resolved and its list built.
C22_ReturnedWhileOtherInFlight ==
    /\ thr[1].pc = "done"
    /\ ~thr[1].raised
    /\ Len(thr[1].out) = TopN
    /\ thr[1].fault = "none"
    /\ self.use_ml_model = TRUE
    /\ thr[2].pc = "built"
    /\ thr[2].season_crops # thr[1].season_crops

\* One call is suspended with its affinity set resolved while the other has
\* resolved its own.
C22_SuspendedMidCall ==
    /\ thr[1].pc = "crops"
    /\ thr[2].pc = "built"
    /\ thr[1].season_crops # thr[2].season_crops

====
